---- MODULE Spec2Model ----
(***************************************************************************)
(* A model of the file-based content store (utils/content.py), the         *)
(* save-project endpoint and the hero-video pipeline (routers/admin.py,    *)
(* utils/video.py) of billybjork.com.                                      *)
(*                                                                         *)
(* Text is a sequence of characters; a character is a TLA+ string.  A      *)
(* YAML key ("name:") or scalar ("true", "n1") is one character of that    *)
(* alphabet: it stands for a run of non-blank characters that holds no     *)
(* line of dashes.  Python's str values are texts; None, True and False    *)
(* are the reserved one-character texts <<"None">>, <<"True">>, <<"False">>*)
(* which no str of the model equals.                                       *)
(***************************************************************************)
EXTENDS Integers, Sequences, FiniteSets, TLC

VARIABLES
    files,        \* PROJECTS_DIR: slug -> [bytes, mtime], the files that exist
    parseCache,   \* _project_parse_cache, least recently used first
    htmlCache,    \* _project_html_cache, least recently used first
    clock,        \* the clock read by monotonic() and by file mtimes
    held,         \* the revision the editing client last received
    resp,         \* what the step just taken was and what it returned
    s3hls,        \* remote storage: the HLS versions [slug, version] uploaded
    source,       \* the probed source video dimensions (HLS ladder)
    resolutions,  \* the ladder _build_hls_resolutions returned for source
    tempVideoFiles, \* _temp_video_files: temp_id -> TempVideoState
    hlsSessions,  \* _hls_sessions: hls_session_id -> HlsSessionState
    tmpfs,        \* the uploaded temp files that exist on local disk
    encodes,      \* the run_hls_encoding threads: id -> [state, slug]
    extracts,     \* the extract_remaining_frames threads: id -> state
    gen,          \* the generate-sprite-sheet request in its polling loop
    issued,       \* how many ids secrets.token_urlsafe has handed out
    calls,        \* the content-store calls in progress: thread -> its position
    mirror,       \* the S3 content mirror: [content: slug -> bytes, archive]
    assets        \* images: [registry: assets.json, bucket: the keys in S3, puts]

vars == <<files, parseCache, htmlCache, clock, held, resp, s3hls, source, resolutions,
          tempVideoFiles, hlsSessions, tmpfs, encodes, extracts, gen, issued,
          calls, mirror, assets>>

-----------------------------------------------------------------------------
(* Bounds of the model.                                                    *)

MaxMdLen == 3
MaxBody == 1
MaxClock == 2
MaxSlugLen == 2

-----------------------------------------------------------------------------
(* Characters and texts.                                                   *)

NL == "\n"
CR == "\r"
SP == " "
DASH == "-"
None == <<"None">>
PyTrue == <<"True">>
PyFalse == <<"False">>
PyBool == {PyTrue, PyFalse}
\* The ints 0 and 2024: reserved one-character texts as well.
PyInt0 == <<"int(0)">>
PyInt2024 == <<"int(2024)">>
PyInts == {PyInt0, PyInt2024}
ValueError == <<"ValueError">>

BoundedSeq(S, n) == UNION {[1..k -> S] : k \in 0..n}

\* Python's \s on the characters of the model.
IsSpace(c) == c \in {NL, CR, SP, "\t"}

SubText(c, a, b) == IF a > b THEN <<>> ELSE SubSeq(c, a, b)

RECURSIVE LStrip(_)
LStrip(t) == IF t # <<>> /\ IsSpace(Head(t)) THEN LStrip(Tail(t)) ELSE t

RECURSIVE RStrip(_)
RStrip(t) ==
    IF t # <<>> /\ IsSpace(t[Len(t)]) THEN RStrip(SubSeq(t, 1, Len(t) - 1)) ELSE t

\* str.strip()
Strip(t) == RStrip(LStrip(t))

\* open(path, "r"): universal newlines, "\r\n" and "\r" are read as "\n".
RECURSIVE Translated(_)
Translated(b) ==
    IF b = <<>> THEN <<>>
    ELSE IF Head(b) = CR
         THEN IF Len(b) >= 2 /\ b[2] = NL
              THEN <<NL>> \o Translated(SubText(b, 3, Len(b)))
              ELSE <<NL>> \o Translated(Tail(b))
         ELSE <<Head(b)>> \o Translated(Tail(b))

ReadText(b) == IF \A i \in DOMAIN b : b[i] # CR THEN b ELSE Translated(b)

\* open(path, "w") on POSIX: os.linesep is "\n", nothing is translated.
WriteText(t) == t

\* sha256(...).hexdigest()[:16] with its prefix, taken as collision free.
Sha(b) == <<"sha256:">> \o b

\* _revision_from_content: the digest of the decoded text, re-encoded.
RevisionFromContent(content) == Sha(content)

-----------------------------------------------------------------------------
(* YAML, as yaml.dump and yaml.safe_load treat the frontmatter mappings.   *)

VideoKeys == <<"hls", "thumbnail", "spriteSheet">>
TopKeys == <<"name", "slug", "date", "pinned", "draft", "video", "youtube">>

KeyToken(k) == CASE k = "name" -> "name:" [] k = "slug" -> "slug:"
                 [] k = "date" -> "date:" [] k = "pinned" -> "pinned:"
                 [] k = "draft" -> "draft:" [] k = "video" -> "video:"
                 [] k = "youtube" -> "youtube:" [] k = "hls" -> "  hls:"
                 [] k = "thumbnail" -> "  thumbnail:"
                 [] k = "spriteSheet" -> "  spriteSheet:"

KeyTokens == {KeyToken(TopKeys[i]) : i \in 1..Len(TopKeys)}
                 \cup {KeyToken(VideoKeys[i]) : i \in 1..Len(VideoKeys)}

\* A scalar as yaml.dump writes it: a str that would read back as another
\* type is quoted, so only bool and None use the reserved words.
DumpScalar(v) == IF v = PyTrue THEN <<"true">>
                 ELSE IF v = PyFalse THEN <<"false">>
                 ELSE IF v = None THEN <<"null">>
                 ELSE IF v = PyInt0 THEN <<"0">>
                 ELSE IF v = PyInt2024 THEN <<"2024">>
                 ELSE v

LoadScalar(t) == IF t = <<"true">> THEN PyTrue
                 ELSE IF t = <<"false">> THEN PyFalse
                 ELSE IF t = <<"null">> THEN None
                 ELSE IF t = <<"0">> THEN PyInt0
                 ELSE IF t = <<"2024">> THEN PyInt2024
                 ELSE t

RECURSIVE DumpKeys(_, _, _)
DumpKeys(m, keys, i) ==
    IF i > Len(keys) THEN <<>>
    ELSE LET k == keys[i] IN
         (IF k \notin DOMAIN m THEN <<>>
          ELSE IF k = "video"
               THEN IF DOMAIN m[k] = {}
                    THEN <<KeyToken(k), "{}", NL>>
                    ELSE <<KeyToken(k), NL>> \o DumpKeys(m[k], VideoKeys, 1)
               ELSE <<KeyToken(k)>> \o DumpScalar(m[k]) \o <<NL>>)
         \o DumpKeys(m, keys, i + 1)

\* yaml.dump(frontmatter, default_flow_style=False, sort_keys=False)
YamlDump(fm) == IF DOMAIN fm = {} THEN <<"{}", NL>> ELSE DumpKeys(fm, TopKeys, 1)

\* The first index from i on at which block t holds token k, 0 when none.
RECURSIVE IndexFrom(_, _, _)
IndexFrom(t, k, i) ==
    IF i > Len(t) THEN 0 ELSE IF t[i] = k THEN i ELSE IndexFrom(t, k, i + 1)

\* The index of the line of key token k in block t, 0 when there is none.
KeyAt(t, k) == IndexFrom(t, k, 1)

\* The end of the line that starts at i.
LineEndAt(t, nl) == IF nl = 0 THEN Len(t) ELSE nl - 1
LineEnd(t, i) == LineEndAt(t, IndexFrom(t, NL, i))

ValueFrom(t, at) == SubText(t, at + 1, LineEnd(t, at))
ValueAt(t, k) == ValueFrom(t, KeyAt(t, k))

LoadVideo(t) ==
    IF ValueAt(t, "video:") = <<"{}">> THEN <<>>
    ELSE LET present == {k \in {"hls", "thumbnail", "spriteSheet"} : KeyAt(t, KeyToken(k)) > 0}
         IN [k \in present |-> LoadScalar(ValueAt(t, KeyToken(k)))]

\* Whether block t is a sequence of the lines YamlDump writes.
RECURSIVE WellFormed(_)
WellFormed(t) ==
    IF t = <<>> THEN TRUE
    ELSE /\ Head(t) \in KeyTokens
         /\ \A j \in 2..LineEnd(t, 1) : t[j] \notin KeyTokens
         /\ WellFormed(SubText(t, LineEnd(t, 1) + 2, Len(t)))

\* What yaml.safe_load gives that is no dict: a str, bool or int is written
\* [value |-> v] and a list [items |-> l]; no mapping of the model has
\* these keys.
IsDict(fm) == DOMAIN fm \cap {"value", "items"} = {}

\* A block of one plain word: safe_load gives the scalar.
PlainScalar(t) == Len(t) = 1 /\ t[1] \notin KeyTokens \cup {DASH, "{}"} /\ ~IsSpace(t[1])

\* A block "- word": safe_load gives a list of one scalar.
BlockSequence(t) == Len(t) = 3 /\ t[1] = DASH /\ t[2] = SP /\ PlainScalar(<<t[3]>>)

\* "or {}": a falsy scalar (None, False, 0) becomes the empty dict.
OrEmptyDict(v) == IF v # None /\ v # PyFalse /\ v # PyInt0 THEN [value |-> v] ELSE <<>>

\* yaml.safe_load(block) or {} under "except yaml.YAMLError: {}".  Of the
\* blocks that are no lines of keys the model writes a plain word, a
\* sequence of one word, and lines with a second key in them, which
\* safe_load refuses with a YAMLError.
YamlLoad(t) ==
    IF t = <<"{}">> \/ Strip(t) = <<>> THEN <<>>
    ELSE IF PlainScalar(t) THEN OrEmptyDict(LoadScalar(t))
    ELSE IF BlockSequence(t) THEN [items |-> <<LoadScalar(<<t[3]>>)>>]
    ELSE IF ~WellFormed(t) THEN <<>>
    ELSE LET present == {k \in {"name", "slug", "date", "pinned", "draft", "video", "youtube"} :
                            KeyAt(t, KeyToken(k)) > 0}
         IN [k \in present |->
                IF k = "video" THEN LoadVideo(t) ELSE LoadScalar(ValueAt(t, KeyToken(k)))]

-----------------------------------------------------------------------------
(* Frontmatter envelope.                                                   *)

Dashes(c, i) == i >= 1 /\ i + 2 <= Len(c) /\ c[i] = DASH /\ c[i + 1] = DASH /\ c[i + 2] = DASH

\* "---\s*\n" with the dashes at i..i+2: the indexes j of the last character
\* that \s* may take (j = i + 2 when it takes none), the "\n" being at j + 1.
DelimiterEnds(c, i) ==
    {j \in (i + 2)..(Len(c) - 1) :
        /\ \A k \in (i + 3)..j : IsSpace(c[k])
        /\ c[j + 1] = NL}

\* The closings "\n---\s*\n" of a block that starts at g: the indexes e of
\* the last character of the block c[g..e], the "\n" being at e + 1.
Closings(c, g) ==
    {e \in (g - 1)..(Len(c) - 4) :
        /\ c[e + 1] = NL
        /\ Dashes(c, e + 2)
        /\ DelimiterEnds(c, e + 2) # {}}

SetMax(S) == CHOOSE x \in S : \A y \in S : y <= x
SetMin(S) == CHOOSE x \in S : \A y \in S : x <= y

\* The body: what (.*)$ takes after a closing whose \s* ended at f.
BodyRestAsParsed(c, f) == SubText(c, f + 2, Len(c))

\* The ends j of an opening "---\s*\n" after which the rest can match.
Opens(content) ==
    IF Dashes(content, 1)
    THEN {j \in DelimiterEnds(content, 1) : Closings(content, j + 2) # {}}
    ELSE {}

\* The groups of the match whose block is content[j + 2 .. e]: the second
\* \s* is greedy.
MatchGroups(content, j, e) ==
    [frontmatter |-> YamlLoad(SubText(content, j + 2, e)),
     markdown_content |-> BodyRestAsParsed(content, SetMax(DelimiterEnds(content, e + 2)))]

\* The match whose opening ends at j: the block is lazy.
MatchFrom(content, j) == MatchGroups(content, j, SetMin(Closings(content, j + 2)))

\* re.match(r'^---\s*\n(.*?)\n---\s*\n(.*)$', content, re.DOTALL): the
\* first \s* is greedy, the block lazy, the second \s* greedy.
ParseFrontmatter(content) ==
    IF Opens(content) = {}
    THEN [frontmatter |-> <<>>, markdown_content |-> content]
    ELSE MatchFrom(content, SetMax(Opens(content)))

\* f"---\n{frontmatter_str}---\n\n{markdown_content}"
SerializeFrontmatter(fm, md) ==
    <<DASH, DASH, DASH, NL>> \o YamlDump(fm) \o <<DASH, DASH, DASH, NL, NL>> \o md

-----------------------------------------------------------------------------
(* Slugs.  A slug is a text; the model writes few characters of each      *)
(* class of SLUG_PATTERN.                                                  *)

SlugFirstChars == {"a", "b", "c", "0"}
SlugRestChars == SlugFirstChars \cup {"_", DASH}

\* The slugs [a-z0-9][a-z0-9_-]* of the specification.
WellFormedSlug(s) ==
    /\ Len(s) >= 1
    /\ s[1] \in SlugFirstChars
    /\ \A i \in 2..Len(s) : s[i] \in SlugRestChars

\* SLUG_PATTERN.match(slug): Python's "$" also matches before a final "\n".
PatternMatches(s) ==
    \/ WellFormedSlug(s)
    \/ Len(s) >= 2 /\ s[Len(s)] = NL /\ WellFormedSlug(SubSeq(s, 1, Len(s) - 1))

ValidateSlug(slug) == PatternMatches(slug)

-----------------------------------------------------------------------------
(* The caches: OrderedDict as a sequence, least recently used first.       *)

\* Both are read from the environment and are at least 1.
PROJECT_CACHE_MAX_ENTRIES == 2
PROJECT_CACHE_TTL_SECONDS == 1

IsFresh(cached_at, now) == (now - cached_at) <= PROJECT_CACHE_TTL_SECONDS

CacheGet(cache, slug) == SelectSeq(cache, LAMBDA e : e.slug = slug)
CachePop(cache, slug) == SelectSeq(cache, LAMBDA e : e.slug # slug)
MoveToEnd(cache, slug) == CachePop(cache, slug) \o CacheGet(cache, slug)
\* cache[slug] = entry; cache.move_to_end(slug)
CachePut(cache, entry) == CachePop(cache, entry.slug) \o <<entry>>

\* A prune that keeps the entries used longest ago.
PruneKeepOldest(cache, now) ==
    LET fresh == SelectSeq(cache, LAMBDA e : IsFresh(e.cached_at, now))
    IN SubSeq(fresh, 1, IF Len(fresh) > PROJECT_CACHE_MAX_ENTRIES
                        THEN PROJECT_CACHE_MAX_ENTRIES ELSE Len(fresh))

PruneProjectCacheLocked(cache, now) ==
    LET fresh == SelectSeq(cache, LAMBDA e : IsFresh(e.cached_at, now))
        n == Len(fresh)
    IN IF n > PROJECT_CACHE_MAX_ENTRIES
       THEN SubSeq(fresh, n - PROJECT_CACHE_MAX_ENTRIES + 1, n)
       ELSE fresh

\* The store a call works on: st = [files, pc, hc].
Store(f, pc, hc) == [files |-> f, pc |-> pc, hc |-> hc]

\* A store that forgets to drop the entries of slug.
KeepProjectCache(st, slug) == st

InvalidateProjectCache(st, slug) ==
    [st EXCEPT !.pc = CachePop(@, slug), !.hc = CachePop(@, slug)]

FileSize(file) == Len(file.bytes)

\* cached and cached.mtime_ns == mtime_ns and cached.size == size and fresh
ParseCacheHit(cached, file, now) ==
    /\ cached # <<>>
    /\ cached[1].mtime_ns = file.mtime
    /\ cached[1].size = FileSize(file)
    /\ IsFresh(cached[1].cached_at, now)

\* The entry built from the text read from the file and its parse.
ParsedEntry(slug, file, content, fmmd, now) ==
    [slug |-> slug, mtime_ns |-> file.mtime, size |-> FileSize(file),
     cached_at |-> now, frontmatter |-> fmmd.frontmatter,
     markdown_content |-> fmmd.markdown_content,
     revision |-> RevisionFromContent(content)]

\* The file is read and parsed.
ReadParsed(slug, file, content, now) ==
    ParsedEntry(slug, file, content, ParseFrontmatter(content), now)

\* The second locked section: parsed is stored, both caches are pruned and
\* an HTML entry of another mtime or size is dropped.
StoreParsed(st, slug, parsed, now) ==
    LET ch == CacheGet(st.hc, slug)
        hc1 == IF ch # <<>> /\ (ch[1].mtime_ns # parsed.mtime_ns \/ ch[1].size # parsed.size)
               THEN CachePop(st.hc, slug) ELSE st.hc
    IN [st |-> [st EXCEPT !.pc = PruneProjectCacheLocked(CachePut(@, parsed), now),
                          !.hc = PruneProjectCacheLocked(hc1, now)],
        parsed |-> parsed]

\* Returns [st, parsed].  The file of slug exists.
GetCachedProjectParse(st, slug, now) ==
    IF ParseCacheHit(CacheGet(st.pc, slug), st.files[slug], now)
    THEN [st |-> [st EXCEPT !.pc = MoveToEnd(@, slug)], parsed |-> CacheGet(st.pc, slug)[1]]
    ELSE StoreParsed(st, slug,
                     ReadParsed(slug, st.files[slug], ReadText(st.files[slug].bytes), now),
                     now)

-----------------------------------------------------------------------------
(* Rendering.  The markdown library is outside the repository: convert is  *)
(* a deterministic function of the block, empty on a blank block.          *)

MarkdownConvert(md) == IF Strip(md) = <<>> THEN <<>> ELSE <<"<p>">> \o Strip(md) \o <<"</p>">>

\* The texts of the model hold no block, row or html marker.
SplitBlocks(md) == IF Strip(md) = <<>> THEN <<>> ELSE <<md>>

RenderMarkdownBlock(md) == Strip(MarkdownConvert(md))

MarkdownToHtml(md) ==
    LET blocks == IF SplitBlocks(md) = <<>> THEN <<md>> ELSE SplitBlocks(md)
        html == RenderMarkdownBlock(blocks[1])
    IN IF html # <<>> THEN <<"<div class=content-block>">> \o html \o <<"</div>">> ELSE <<>>

-----------------------------------------------------------------------------
(* load_project, save_project, delete_project, content_revision.           *)

Get(m, k, default) == IF k \in DOMAIN m THEN m[k] ELSE default

\* A dict is falsy when empty, a str when empty, the int 0, None always.
Truthy(v) == v # <<>> /\ v # None /\ v # PyFalse /\ v # PyInt0

\* isinstance(v, str), of the values a JSON body or a YAML mapping holds in
\* the model.
IsStr(v) == v # None /\ v \notin PyBool /\ v \notin PyInts

BuildProject(slug, parsed, html) ==
    LET fm == parsed.frontmatter
        video == Get(fm, "video", <<>>)
    IN [slug |-> slug,
        name |-> Get(fm, "name", slug),
        creation_date |-> Get(fm, "date", None),
        is_draft |-> Get(fm, "draft", PyFalse),
        pinned |-> Get(fm, "pinned", PyFalse),
        youtube_link |-> Get(fm, "youtube", None),
        html_content |-> html,
        markdown_content |-> parsed.markdown_content,
        revision |-> parsed.revision,
        video_link |-> Get(video, "hls", None),
        thumbnail_link |-> Get(video, "thumbnail", None),
        sprite_sheet_link |-> Get(video, "spriteSheet", None)]

\* html_cached and its mtime_ns and size are those of parsed and it is fresh
HtmlCacheHit(hcached, parsed, now) ==
    /\ hcached # <<>>
    /\ hcached[1].mtime_ns = parsed.mtime_ns
    /\ hcached[1].size = parsed.size
    /\ IsFresh(hcached[1].cached_at, now)

\* "if not html_content": html was rendered, it is stored and the cache pruned.
\* Returns [st, html, hit].
StoreRendered(st, slug, parsed, html, now) ==
    [st |-> [st EXCEPT !.hc = PruneProjectCacheLocked(
                                  CachePut(@, [slug |-> slug, mtime_ns |-> parsed.mtime_ns,
                                               size |-> parsed.size, cached_at |-> now,
                                               html_content |-> html]), now)],
     html |-> html, hit |-> FALSE]

\* The include_html part of load_project.  Returns [st, html, hit]: an empty
\* cached html_content is falsy and is rendered again.
LoadHtml(st, slug, parsed, hcached, now) ==
    IF HtmlCacheHit(hcached, parsed, now)
    THEN IF hcached[1].html_content # <<>>
         THEN [st |-> [st EXCEPT !.hc = MoveToEnd(@, slug)],
               html |-> hcached[1].html_content, hit |-> TRUE]
         ELSE StoreRendered([st EXCEPT !.hc = MoveToEnd(@, slug)], slug, parsed,
                            MarkdownToHtml(parsed.markdown_content), now)
    ELSE StoreRendered([st EXCEPT !.hc = CachePop(@, slug)], slug, parsed,
                       MarkdownToHtml(parsed.markdown_content), now)

\* The project dict of the parsed entry and its html.  raised tells that
\* frontmatter.get raised AttributeError, the frontmatter being no dict: the
\* call returns nothing, the cache entries stay.
LoadedProject(h, slug, parsed) ==
    IF IsDict(parsed.frontmatter)
    THEN [st |-> h.st, ret |-> <<BuildProject(slug, parsed, h.html)>>, fs |-> {slug},
          hit |-> h.hit, raised |-> FALSE]
    ELSE [st |-> h.st, ret |-> <<>>, fs |-> {slug}, hit |-> h.hit, raised |-> TRUE]

\* load_project from the parsed entry on; g is [st, parsed].
LoadParsed(g, slug, now) ==
    LoadedProject(LoadHtml(g.st, slug, g.parsed, CacheGet(g.st.hc, slug), now), slug, g.parsed)

\* Returns [st, ret, fs, hit, raised]: ret is <<>> for None and <<project>>
\* otherwise; fs is the set of slugs whose path the call built or handed to
\* the filesystem; hit tells that html_content came from the HTML cache.
LoadProject(st, slug, now) ==
    IF ~ValidateSlug(slug)
    THEN [st |-> st, ret |-> <<>>, fs |-> {}, hit |-> FALSE, raised |-> FALSE]
    ELSE IF slug \notin DOMAIN st.files
    THEN [st |-> InvalidateProjectCache(st, slug), ret |-> <<>>, fs |-> {slug},
          hit |-> FALSE, raised |-> FALSE]
    ELSE LoadParsed(GetCachedProjectParse(st, slug, now), slug, now)

\* A write that leaves an existing file as it is.
WriteFileOnce(st, slug, text, now) ==
    IF slug \in DOMAIN st.files THEN st
    ELSE [st EXCEPT !.files = (slug :> [bytes |-> WriteText(text), mtime |-> now]) @@ @]

\* open(filepath, "w", encoding="utf-8").write(text)
WriteFile(st, slug, text, now) ==
    [st EXCEPT !.files = (slug :> [bytes |-> WriteText(text), mtime |-> now]) @@ @]

Unlink(st, slug) ==
    [st EXCEPT !.files = [s \in (DOMAIN @) \ {slug} |-> @[s]]]

\* Returns [st, ret, fs]; ret is PyTrue, or ValueError when it raises.
SaveProject(st, slug, fm, md, now) ==
    IF ~ValidateSlug(slug) THEN [st |-> st, ret |-> ValueError, fs |-> {}]
    ELSE [st |-> InvalidateProjectCache(
                     WriteFile(st, slug, SerializeFrontmatter(fm, md), now), slug),
          ret |-> PyTrue, fs |-> {slug}]

\* Returns [st, ret, fs]; ret is PyTrue, PyFalse, or ValueError when it raises.
DeleteProject(st, slug) ==
    IF ~ValidateSlug(slug) THEN [st |-> st, ret |-> ValueError, fs |-> {}]
    ELSE IF slug \in DOMAIN st.files
    THEN [st |-> InvalidateProjectCache(Unlink(st, slug), slug), ret |-> PyTrue, fs |-> {slug}]
    ELSE [st |-> st, ret |-> PyFalse, fs |-> {slug}]

\* A revision of the decoded text in place of the raw bytes.
ContentRevisionOfText(f, slug) ==
    IF slug \in DOMAIN f THEN Sha(ReadText(f[slug].bytes)) ELSE None

\* content_revision(PROJECTS_DIR / f"{slug}.md"): the digest of the raw bytes.
ContentRevision(f, slug) == IF slug \in DOMAIN f THEN Sha(f[slug].bytes) ELSE None

-----------------------------------------------------------------------------
(* Remote storage of hero videos.                                          *)

\* f'https://{CLOUDFRONT_DOMAIN}/{hero_hls_prefix(slug, version)}/master.m3u8'
HlsUrl(slug, version) ==
    <<"https://cdn", "/videos/">> \o slug \o <<"/", version, "/master.m3u8">>

\* f"/videos/{slug}/" in url
UnderVideoPrefix(url, slug) ==
    LET needle == <<"/videos/">> \o slug \o <<"/">>
    IN \E i \in 1..Len(url) :
           i + Len(needle) - 1 <= Len(url) /\ SubSeq(url, i, i + Len(needle) - 1) = needle

\* cleanup_old_hls_versions(slug, current_hls_url): of the versions stored
\* for slug only the one current_hls_url names is kept.
CleanupOldHlsVersions(s3, slug, keep) ==
    {o \in s3 : o.slug # slug \/ HlsUrl(o.slug, o.version) = keep}

\* delete_video_prefix(slug): everything under videos/<slug>/.
DeleteVideoPrefix(s3, slug) == {o \in s3 : o.slug # slug}

-----------------------------------------------------------------------------
(* The admin endpoints of the content store.  A request body d is a record *)
(* of the JSON keys; a key the client leaves out holds None.               *)

ValidateSaveProjectInput(d) ==
    LET slug_raw == d.slug
        original_raw == IF Truthy(d.original_slug) THEN d.original_slug ELSE slug_raw
    IN IF ~Truthy(slug_raw) \/ ~Truthy(original_raw)
           \/ ~ValidateSlug(Strip(slug_raw)) \/ ~ValidateSlug(Strip(original_raw))
       THEN [ok |-> FALSE, slug |-> <<>>, original_slug |-> <<>>]
       ELSE [ok |-> TRUE, slug |-> Strip(slug_raw), original_slug |-> Strip(original_raw)]

NormalizedVideo(d) ==
    LET kept == {k \in {"hls", "thumbnail", "spriteSheet"} :
                    k \in DOMAIN d.video /\ Truthy(d.video[k]) /\ Strip(d.video[k]) # <<>>}
    IN [k \in kept |-> Strip(d.video[k])]

BuildProjectFrontmatter(d, slug) ==
    [name |-> d.name, slug |-> slug, date |-> d.date, pinned |-> d.pinned, draft |-> d.draft]
        @@ (IF DOMAIN NormalizedVideo(d) # {} THEN [video |-> NormalizedVideo(d)] ELSE <<>>)
        @@ (IF Truthy(d.youtube) THEN [youtube |-> d.youtube] ELSE <<>>)

Reply(st, s3, status, body) == [st |-> st, s3 |-> s3, status |-> status, body |-> body]

\* "if original_slug != slug: delete_project(original_slug)"
RemoveRenamed(st, slug, original) ==
    IF original # slug THEN DeleteProject(st, original).st ELSE st

\* cleanup_hls: the URL whose version cleanup_old_hls_versions keeps.
CleanupHls(d, slug, original) ==
    LET hls == Get(NormalizedVideo(d), "hls", None)
    IN IF original # slug /\ (hls = None \/ ~UnderVideoPrefix(hls, original)) THEN None ELSE hls

\* The end of save_project_endpoint, st being the store after the write.
SavedReply(st, s3, d, slug, original) ==
    Reply(st,
          CleanupOldHlsVersions(s3, IF original # slug THEN original ELSE slug,
                                CleanupHls(d, slug, original)),
          200,
          [success |-> TRUE, slug |-> slug, revision |-> ContentRevision(st.files, slug)])

\* An endpoint that compares no revisions.
SaveWithoutCheck(old, current, s3, d, slug, original, now) ==
    IF old.ret = <<>>
    THEN Reply(old.st, s3, 404, [detail |-> "Project not found"])
    ELSE SavedReply(
             RemoveRenamed(
                 SaveProject(old.st, slug, BuildProjectFrontmatter(d, slug), d.markdown, now).st,
                 slug, original),
             s3, d, slug, original)

\* The conflict check and what follows it; old is load_project(original_slug)
\* and current is content_revision of its file.
ConflictOrSave(old, current, s3, d, slug, original, now) ==
    IF Truthy(d.base_revision) /\ ~Truthy(d.force)
           /\ Truthy(current) /\ d.base_revision # current
    THEN Reply(old.st, s3, 409,
               [conflict |-> TRUE,
                server_revision |-> current,
                server_markdown |->
                    IF old.ret # <<>> THEN old.ret[1].markdown_content ELSE <<>>,
                your_markdown |-> d.markdown])
    ELSE IF old.ret = <<>>
    THEN Reply(old.st, s3, 404, [detail |-> "Project not found"])
    ELSE IF ~IsStr(d.markdown)
    THEN Reply(old.st, s3, 400, [detail |-> "Markdown must be a string"])
    ELSE SavedReply(
             RemoveRenamed(
                 SaveProject(old.st, slug, BuildProjectFrontmatter(d, slug), d.markdown, now).st,
                 slug, original),
             s3, d, slug, original)

\* save_project_endpoint once the slug is known not to be taken.
SaveExisting(st, s3, d, slug, original, now) ==
    ConflictOrSave(LoadProject(st, original, now), ContentRevision(st.files, original),
                   s3, d, slug, original, now)

\* "if original_slug != slug and load_project(slug)"; taken is load_project(slug).
RenameChecked(taken, s3, d, slug, original, now) ==
    IF taken.ret # <<>>
    THEN Reply(taken.st, s3, 400, [detail |-> "Project with this slug already exists"])
    ELSE SaveExisting(taken.st, s3, d, slug, original, now)

\* save_project_endpoint.  Returns [st, s3, status, body].
SaveProjectEndpoint(st, s3, d, now) ==
    LET v == ValidateSaveProjectInput(d)
    IN IF ~v.ok THEN Reply(st, s3, 400, [detail |-> "Invalid slug format"])
       ELSE IF v.original_slug # v.slug
       THEN RenameChecked(LoadProject(st, v.slug, now), s3, d, v.slug, v.original_slug, now)
       ELSE SaveExisting(st, s3, d, v.slug, v.original_slug, now)

\* A create that writes the file whether or not the slug is taken.
CreateOverwrites(taken, s3, d, now) ==
    Reply(SaveProject(taken.st, d.slug,
                      [name |-> d.name, slug |-> d.slug, date |-> d.date,
                       pinned |-> d.pinned, draft |-> d.draft],
                      d.markdown, now).st,
          s3, 200, [success |-> TRUE, slug |-> d.slug])

\* create_project after its checks of the slug; taken is load_project(slug).
CreateChecked(taken, s3, d, now) ==
    IF taken.ret # <<>>
    THEN Reply(taken.st, s3, 400, [detail |-> "Project with this slug already exists"])
    ELSE Reply(SaveProject(taken.st, d.slug,
                           [name |-> d.name, slug |-> d.slug, date |-> d.date,
                            pinned |-> d.pinned, draft |-> d.draft],
                           d.markdown, now).st,
               s3, 200, [success |-> TRUE, slug |-> d.slug])

\* create_project.  The slug is validated as sent, not stripped.
CreateProject(st, s3, d, now) ==
    IF ~Truthy(d.slug) \/ ~ValidateSlug(d.slug)
    THEN Reply(st, s3, 400, [detail |-> "Invalid slug format"])
    ELSE CreateChecked(LoadProject(st, d.slug, now), s3, d, now)

\* The reply of get_project to project = load_project(slug).
GetReply(l, s3) ==
    IF l.ret = <<>> THEN Reply(l.st, s3, 404, [detail |-> "Project not found"])
    ELSE Reply(l.st, s3, 200, l.ret[1] @@ [hit |-> l.hit])

\* get_project: the record the editor loads, with its revision.
GetProject(st, s3, slug, now) == GetReply(LoadProject(st, slug, now), s3)

\* delete_project_endpoint from project = load_project(slug) on.
DeleteLoaded(l, s3, slug) ==
    IF l.ret = <<>> THEN Reply(l.st, s3, 404, [detail |-> "Project not found"])
    ELSE Reply(DeleteProject(l.st, slug).st, DeleteVideoPrefix(s3, slug), 200,
               [success |-> TRUE])

\* delete_project_endpoint
DeleteProjectEndpoint(st, s3, slug, now) == DeleteLoaded(LoadProject(st, slug, now), s3, slug)

-----------------------------------------------------------------------------
(* Values the specifications start from.                                   *)

NoFiles == <<>>
NoResp == [op |-> "init"]
NoSource == <<0, 0>>

StoreNow == Store(files, parseCache, htmlCache)

\* The variables of the store take the values of store st.
StoreBecomes(st) ==
    /\ files' = st.files
    /\ parseCache' = st.pc
    /\ htmlCache' = st.hc

NoGen == [pc |-> "idle"]

\* No upload was made yet.
NoUploads ==
    /\ tempVideoFiles = <<>> /\ hlsSessions = <<>> /\ tmpfs = {}
    /\ encodes = <<>> /\ extracts = <<>> /\ gen = NoGen /\ issued = 0

UploadsIdle ==
    UNCHANGED <<tempVideoFiles, hlsSessions, tmpfs, encodes, extracts, gen, issued>>
LadderIdle == UNCHANGED <<source, resolutions>>

MaxThreads == 2
Threads == 1..MaxThreads
NoCall == [op |-> "idle"]

\* assets.json does not exist and no image was uploaded.
NoAssets == assets = [registry |-> <<>>, bucket |-> {}, puts |-> 0]

\* No thread is inside a content-store call; the mirror holds nothing.
NoCalls ==
    /\ calls = [t \in Threads |-> NoCall]
    /\ mirror = [content |-> <<>>, archive |-> {}]
    /\ NoAssets
AssetsIdle == UNCHANGED assets
CallsIdle == UNCHANGED <<calls, mirror, assets>>
VideoIdle == UNCHANGED <<s3hls>> /\ UploadsIdle

-----------------------------------------------------------------------------
(* Round trip: save_project(s, fm, md), then load_project(s).              *)

MdChars == {NL, SP, DASH, "x"}
RtSlug == <<"a">>
Dates == {<<"2023-01-01">>, <<"2024-01-01">>, <<"2025-01-01">>}

\* Frontmatter mappings as the editor and the tools write them.
RtFms ==
    LET base == {[name |-> <<"n1">>, slug |-> RtSlug, date |-> d, pinned |-> p, draft |-> q] :
                    d \in {<<"2024-01-01">>, None}, p \in PyBool, q \in PyBool}
        video == {<<>>, [video |-> [hls |-> <<"u1">>]],
                  [video |-> [hls |-> <<"u1">>, thumbnail |-> <<"t1">>, spriteSheet |-> <<"s1">>]]}
        youtube == {<<>>, [youtube |-> <<"y1">>]}
    IN {b @@ v @@ y : b \in base, v \in video, y \in youtube} \cup {<<>>}

RtInit ==
    /\ files = NoFiles /\ parseCache = <<>> /\ htmlCache = <<>>
    /\ clock = 0 /\ held = None /\ resp = NoResp
    /\ source = NoSource /\ resolutions = <<>>
    /\ s3hls = {} /\ NoUploads /\ NoCalls

\* save_project returned r: resp keeps what was saved.
RtSaved(fm, md, r) ==
    /\ StoreBecomes(r.st)
    /\ resp' = [op |-> "save_project", slug |-> RtSlug, fm |-> fm, md |-> md, ret |-> r.ret]

\* load_project returned r.
RtLoaded(r) ==
    /\ StoreBecomes(r.st)
    /\ resp' = [resp EXCEPT !.op = "load_project", !.ret = r.ret]

RtSave ==
    /\ resp.op = "init"
    /\ \E fm \in RtFms, md \in BoundedSeq(MdChars, MaxMdLen) :
        RtSaved(fm, md, SaveProject(StoreNow, RtSlug, fm, md, clock))
    /\ UNCHANGED <<clock, held>> /\ LadderIdle /\ VideoIdle /\ CallsIdle

RtLoad ==
    /\ resp.op = "save_project"
    /\ RtLoaded(LoadProject(StoreNow, resp.slug, clock))
    /\ UNCHANGED <<clock, held>> /\ LadderIdle /\ VideoIdle /\ CallsIdle

RtNext == RtSave \/ RtLoad

SpecRoundTrip == RtInit /\ [][RtNext]_vars

\* The frontmatter fields of a loaded record equal the entries of fm.
FieldsEqual(p, fm) ==
    /\ "name" \in DOMAIN fm => p.name = fm.name
    /\ "date" \in DOMAIN fm => p.creation_date = fm.date
    /\ "draft" \in DOMAIN fm => p.is_draft = fm.draft
    /\ "pinned" \in DOMAIN fm => p.pinned = fm.pinned
    /\ "youtube" \in DOMAIN fm => p.youtube_link = fm.youtube
    /\ "video" \in DOMAIN fm =>
        /\ p.video_link = Get(fm.video, "hls", None)
        /\ p.thumbnail_link = Get(fm.video, "thumbnail", None)
        /\ p.sprite_sheet_link = Get(fm.video, "spriteSheet", None)

\* C1: save_project(s, fm, md) then load_project(s) returns a record whose
\* markdown_content is md exactly and whose frontmatter fields are those of fm.
C1_RoundTripExact ==
    resp.op = "load_project" =>
        /\ resp.ret # <<>>
        /\ resp.ret[1].markdown_content = resp.md
        /\ FieldsEqual(resp.ret[1], resp.fm)

-----------------------------------------------------------------------------
(* Slug validation: the three store operations on arbitrary slug texts.    *)

MaxFiles == 1
SlugChars == {"a", "0", DASH, "_", "A", ".", "/", NL}
SlugInputs == BoundedSeq(SlugChars, MaxSlugLen)
SlugFm == [name |-> <<"n1">>, date |-> <<"2024-01-01">>]
SlugMd == <<"x">>

SlugInit ==
    /\ files = (<<"a">> :> [bytes |-> SerializeFrontmatter(SlugFm, SlugMd), mtime |-> 0])
    /\ parseCache = <<>> /\ htmlCache = <<>>
    /\ clock = 0 /\ held = None /\ resp = NoResp
    /\ source = NoSource /\ resolutions = <<>>
    /\ s3hls = {} /\ NoUploads /\ NoCalls

CallResp(op, slug, r) == [op |-> op, slug |-> slug, ret |-> r.ret, fs |-> r.fs]

\* The call op(slug) returned r.
Called(op, slug, r) == StoreBecomes(r.st) /\ resp' = CallResp(op, slug, r)

SlugLoad ==
    /\ \E slug \in SlugInputs :
        Called("load_project", slug, LoadProject(StoreNow, slug, clock))
    /\ UNCHANGED <<clock, held>> /\ LadderIdle /\ VideoIdle /\ CallsIdle

SlugSave ==
    /\ \E slug \in SlugInputs :
        /\ slug \in DOMAIN files \/ Cardinality(DOMAIN files) < MaxFiles
        /\ Called("save_project", slug, SaveProject(StoreNow, slug, SlugFm, SlugMd, clock))
    /\ UNCHANGED <<clock, held>> /\ LadderIdle /\ VideoIdle /\ CallsIdle

SlugDelete ==
    /\ \E slug \in SlugInputs :
        Called("delete_project", slug, DeleteProject(StoreNow, slug))
    /\ UNCHANGED <<clock, held>> /\ LadderIdle /\ VideoIdle /\ CallsIdle

SlugNext == SlugLoad \/ SlugSave \/ SlugDelete

SpecSlug == SlugInit /\ [][SlugNext]_vars

\* C4: a slug that is not [a-z0-9][a-z0-9_-]* is rejected by load_project
\* (None), save_project and delete_project (ValueError) before any path is
\* built or handed to the filesystem.
C4_InvalidSlugRejected ==
    (resp.op \in {"load_project", "save_project", "delete_project"}
        /\ ~WellFormedSlug(resp.slug)) =>
        /\ resp.fs = {}
        /\ resp.op = "load_project" => resp.ret = <<>>
        /\ resp.op # "load_project" => resp.ret = ValueError

-----------------------------------------------------------------------------
(* The content store behind its endpoints: an editing client that loads,   *)
(* creates, saves, renames and deletes projects, while time passes and     *)
(* files are touched.                                                      *)

ReqSlugs == {<<"a">>, <<"b">>}
\* The slugs a save may name as its target: the last is not a slug.
ReqTargets == ReqSlugs \cup {<<"A">>}
BodyChars == {"x", CR}
Bodies == BoundedSeq(BodyChars, MaxBody) \ {<<>>}
ReqNames == {<<"n1">>}
ReqPinned == {PyFalse}

\* The revision of the bytes now stored for slug, None when there is no file.
LiveRevision(slug) == IF slug \in DOMAIN files THEN Sha(files[slug].bytes) ELSE None

\* The bytes now stored for slug, empty when there is no file.
LiveBytes(slug) == IF slug \in DOMAIN files THEN files[slug].bytes ELSE <<>>

ProjectData(slug, name, pinned, md) ==
    [slug |-> slug, name |-> name, date |-> <<"2024-01-01">>, pinned |-> pinned,
     draft |-> PyFalse, video |-> <<>>, youtube |-> None, markdown |-> md]

\* What the editor sends: base_revision is absent, the revision the client
\* holds, or the live one; markdown is a text or null.
SaveRequests ==
    UNION {{ProjectData(slug, name, pinned, md)
                @@ [original_slug |-> o, base_revision |-> b, force |-> f] :
                slug \in ReqTargets, name \in ReqNames, pinned \in ReqPinned,
                md \in Bodies \cup {None},
                b \in {None, held, LiveRevision(o)}, f \in PyBool} :
           o \in ReqSlugs}

CreateRequests ==
    {ProjectData(slug, name, pinned, md) :
        slug \in ReqSlugs, name \in ReqNames, pinned \in ReqPinned, md \in Bodies}

Init ==
    /\ files = NoFiles /\ parseCache = <<>> /\ htmlCache = <<>>
    /\ clock = 0 /\ held = None /\ resp = NoResp
    /\ source = NoSource /\ resolutions = <<>>
    /\ s3hls = {} /\ NoUploads /\ NoCalls

Answered(r) == StoreBecomes(r.st) /\ s3hls' = r.s3 /\ UploadsIdle

\* get_project answered r.
GetAnswered(slug, r) ==
    /\ Answered(r)
    /\ resp' = [op |-> "get_project", slug |-> slug, status |-> r.status, body |-> r.body]
    /\ held' = IF r.status = 200 THEN r.body.revision ELSE held

ReqGetProject ==
    /\ \E slug \in ReqSlugs : GetAnswered(slug, GetProject(StoreNow, s3hls, slug, clock))
    /\ UNCHANGED clock /\ LadderIdle /\ CallsIdle

\* save_project_endpoint answered r to d.  resp keeps, next to the request
\* and the answer, what was stored when the request arrived: the bytes of
\* the original slug and whether the target slug was taken.
SaveAnswered(d, r) ==
    /\ Answered(r)
    /\ resp' = [op |-> "save_project_endpoint", req |-> d, status |-> r.status,
                body |-> r.body,
                before |-> LiveBytes(d.original_slug),
                taken |-> d.slug \in DOMAIN files,
                untouched |-> r.st.files = files]
    /\ held' = IF r.status = 200 THEN r.body.revision ELSE held

ReqSaveProject ==
    /\ \E d \in SaveRequests : SaveAnswered(d, SaveProjectEndpoint(StoreNow, s3hls, d, clock))
    /\ UNCHANGED clock /\ LadderIdle /\ CallsIdle

\* create_project answered r to d.
CreateAnswered(d, r) ==
    /\ Answered(r)
    /\ resp' = [op |-> "create_project", req |-> d, status |-> r.status,
                body |-> r.body, untouched |-> r.st.files = files]

ReqCreateProject ==
    /\ \E d \in CreateRequests : CreateAnswered(d, CreateProject(StoreNow, s3hls, d, clock))
    /\ UNCHANGED <<clock, held>> /\ LadderIdle /\ CallsIdle

\* delete_project_endpoint answered r.
DeleteAnswered(slug, r) ==
    /\ Answered(r)
    /\ resp' = [op |-> "delete_project_endpoint", slug |-> slug,
                status |-> r.status, body |-> r.body]

ReqDeleteProject ==
    /\ \E slug \in ReqSlugs :
        DeleteAnswered(slug, DeleteProjectEndpoint(StoreNow, s3hls, slug, clock))
    /\ UNCHANGED <<clock, held>> /\ LadderIdle /\ CallsIdle

Next ==
    \/ ReqGetProject
    \/ ReqSaveProject
    \/ ReqCreateProject
    \/ ReqDeleteProject

Spec == Init /\ [][Next]_vars

IsSave == resp.op = "save_project_endpoint"
IsRename == resp.req.original_slug # resp.req.slug
\* The file the request asked for, as save_project writes it.
Submitted ==
    SerializeFrontmatter(BuildProjectFrontmatter(resp.req, resp.req.slug), resp.req.markdown)
Stale == resp.req.base_revision # Sha(resp.before)
\* The request names a slug as its target.
TargetIsSlug == WellFormedSlug(Strip(resp.req.slug))
\* The request is refused before the revisions are compared.
Refused == ~TargetIsSlug \/ (IsRename /\ resp.taken)

\* The 409 answer: given exactly to the stale, unforced save, with the live
\* revision and body, the file unmodified.
Rejected409 ==
    /\ resp.status = 409 <=> (~Truthy(resp.req.force) /\ Stale)
    /\ resp.status = 409 =>
        /\ resp.body.server_revision = Sha(resp.before)
        /\ resp.body.server_markdown = ParseFrontmatter(ReadText(resp.before)).markdown_content
        /\ resp.untouched

\* A forced save writes what was submitted.
Overwrites ==
    Truthy(resp.req.force) =>
        /\ resp.status = 200
        /\ LiveBytes(resp.req.slug) = Submitted

\* What C2 says of one answered save that carries a base_revision for an
\* existing project.
ConflictRule == Rejected409 /\ Overwrites

\* C2 as stated: a save that carries a base_revision for an existing project
\* answers 409, with the live revision and body and the file unmodified, if
\* and only if force is not set and the live revision differs from
\* base_revision; with force set the submitted content is written.
C2_ConflictRuleAsStated ==
    (IsSave /\ Truthy(resp.req.base_revision) /\ resp.before # <<>>) => ConflictRule

\* C2: of the saves that carry a base_revision for an existing project, one
\* that names an ill-formed target slug or renames onto a slug that is
\* already taken is answered 400, stale or forced alike, and writes nothing;
\* every other one is answered 409, with the live revision and body and the
\* file unmodified, if and only if force is not set and the live revision
\* differs from base_revision; when it is not answered 409, a forced one
\* that carries a text as markdown writes the submitted content, and one
\* whose markdown is no text is answered 400 and writes nothing.
C2_ConflictRule ==
    (IsSave /\ Truthy(resp.req.base_revision) /\ resp.before # <<>>) =>
        IF Refused THEN resp.status = 400 /\ resp.untouched
        ELSE /\ Rejected409
             /\ IsStr(resp.req.markdown) => Overwrites
             /\ (~IsStr(resp.req.markdown) /\ resp.status # 409) =>
                    resp.status = 400 /\ resp.untouched

\* A stale, unforced save was answered 409 with a live body other than the
\* submitted one.
C2_Witness409 ==
    /\ IsSave /\ resp.before # <<>> /\ Truthy(resp.req.base_revision)
    /\ Stale /\ ~Truthy(resp.req.force) /\ resp.status = 409
    /\ resp.body.server_markdown # resp.req.markdown

\* C3 as stated: a save presenting the current revision R1 of a stored
\* project succeeds, returns the revision R2 of the file as now stored, and
\* R2 # R1.
C3_FreshSaveNewRevisionAsStated ==
    (IsSave /\ resp.before # <<>> /\ resp.req.base_revision = Sha(resp.before)) =>
        /\ resp.status = 200
        /\ resp.body.revision = LiveRevision(resp.req.slug)
        /\ resp.body.revision # resp.req.base_revision

\* C3: a save presenting the current revision R1 of a stored project, that
\* names a well-formed target slug, carries a text as markdown and is not a
\* rename onto a taken slug, succeeds; the file then holds the submitted
\* data, the returned R2 is the revision of that file, and R2 # R1 exactly
\* when the stored bytes changed.
C3_FreshSaveNewRevision ==
    (IsSave /\ resp.before # <<>> /\ resp.req.base_revision = Sha(resp.before)
        /\ IsStr(resp.req.markdown) /\ ~Refused) =>
        /\ resp.status = 200
        /\ LiveBytes(resp.req.slug) = Submitted
        /\ resp.body.revision = LiveRevision(resp.req.slug)
        /\ (resp.body.revision # resp.req.base_revision) <=> (Submitted # resp.before)

\* A fresh save changed the stored bytes and returned a new revision.
C3_WitnessFreshSave ==
    /\ IsSave /\ resp.before # <<>> /\ resp.req.base_revision = Sha(resp.before)
    /\ ~IsRename /\ resp.status = 200
    /\ LiveBytes(resp.req.slug) # resp.before
    /\ resp.body.revision # resp.req.base_revision

\* C7: the revision get_project hands out (load_project's) is
\* content_revision of the file as stored, the digest of its raw bytes, and a
\* save presenting it with nothing written in between is not answered 409.
C7_LoadRevisionIsContentRevision ==
    /\ (resp.op = "get_project" /\ resp.status = 200) =>
           resp.body.revision = ContentRevision(files, resp.slug)
    /\ (IsSave /\ resp.before # <<>>
            /\ resp.req.base_revision = RevisionFromContent(ReadText(resp.before))) =>
           resp.status # 409

-----------------------------------------------------------------------------
(* load_project and its caches: one project that is written, loaded and    *)
(* touched while the clock advances past the caches' time to live.         *)

CacheSlug == <<"a">>
CacheFm == [name |-> <<"n1">>, date |-> <<"2024-01-01">>]

\* held is here what the last load since the last write returned: <<>>, or
\* <<[html, mtime]>> with the mtime the file had then.
CacheInit ==
    /\ files = NoFiles /\ parseCache = <<>> /\ htmlCache = <<>>
    /\ clock = 0 /\ held = <<>> /\ resp = NoResp
    /\ source = NoSource /\ resolutions = <<>>
    /\ s3hls = {} /\ NoUploads /\ NoCalls

CacheSave ==
    /\ \E md \in Bodies :
        /\ StoreBecomes(SaveProject(StoreNow, CacheSlug, CacheFm, md, clock).st)
        /\ resp' = [op |-> "save_project", md |-> md]
    /\ held' = <<>>
    /\ UNCHANGED clock /\ LadderIdle /\ VideoIdle /\ CallsIdle

\* load_project returned r.
CacheLoaded(r) ==
    /\ StoreBecomes(r.st)
    /\ resp' = [op |-> "load_project", ret |-> r.ret, hit |-> r.hit, prev |-> held]
    /\ held' = IF r.ret = <<>> THEN <<>>
               ELSE <<[html |-> r.ret[1].html_content, mtime |-> files[CacheSlug].mtime]>>

CacheLoad ==
    /\ CacheLoaded(LoadProject(StoreNow, CacheSlug, clock))
    /\ UNCHANGED clock /\ LadderIdle /\ VideoIdle /\ CallsIdle

\* The file's mtime changes, its bytes do not (os.utime, a restore, a sync).
Touch ==
    /\ CacheSlug \in DOMAIN files
    /\ \E t \in 0..MaxClock :
        /\ t # files[CacheSlug].mtime
        /\ files' = [files EXCEPT ![CacheSlug].mtime = t]
    /\ resp' = [op |-> "touch"]
    /\ UNCHANGED <<parseCache, htmlCache, clock, held>> /\ LadderIdle /\ VideoIdle /\ CallsIdle

Tick ==
    /\ clock < MaxClock
    /\ clock' = clock + 1
    /\ resp' = [op |-> "tick"]
    /\ UNCHANGED <<files, parseCache, htmlCache, held>> /\ LadderIdle /\ VideoIdle /\ CallsIdle

CacheNext == CacheSave \/ CacheLoad \/ Touch \/ Tick

SpecCache == CacheInit /\ [][CacheNext]_vars

\* C6: the html_content load_project returns is the rendering of the
\* markdown body of the file as stored, from the cache or rendered afresh,
\* and equals what the previous load returned when nothing was written in
\* between, a change of the file's mtime included.
C6_HtmlIsRenderingOfBody ==
    (resp.op = "load_project" /\ resp.ret # <<>>) =>
        /\ resp.ret[1].html_content =
               MarkdownToHtml(ParseFrontmatter(ReadText(files[CacheSlug].bytes)).markdown_content)
        /\ resp.prev # <<>> => resp.ret[1].html_content = resp.prev[1].html

\* A load after the mtime changed rendered afresh what an earlier load had
\* returned, and the rendering is not empty.
C6_WitnessTouchedReload ==
    /\ resp.op = "load_project" /\ resp.ret # <<>>
    /\ resp.prev # <<>> /\ resp.prev[1].mtime # files[CacheSlug].mtime
    /\ ~resp.hit
    /\ resp.ret[1].html_content # <<>>

-----------------------------------------------------------------------------
(* load_all_projects: the projects of the directory, in the order glob     *)
(* yields them, sorted by (-pinned, -date.toordinal()).                    *)

MaxProjects == 3
SlugPool == <<<<"a">>, <<"b">>, <<"c">>, <<"0">>>>
SortSlugs == {SlugPool[i] : i \in 1..MaxProjects}

\* A date as (year, month, day); date.min is (1, 1, 1).
DateMin == <<1, 1, 1>>

IsLeap(y) == y % 4 = 0 /\ (y % 100 # 0 \/ y % 400 = 0)
DaysBeforeYear(y) == (y - 1) * 365 + (y - 1) \div 4 - (y - 1) \div 100 + (y - 1) \div 400
DaysInMonth == <<31, 28, 31, 30, 31, 30, 31, 31, 30, 31, 30, 31>>
RECURSIVE DaysBeforeMonth(_, _)
DaysBeforeMonth(y, m) ==
    IF m = 1 THEN 0
    ELSE DaysBeforeMonth(y, m - 1) + DaysInMonth[m - 1]
             + (IF m - 1 = 2 /\ IsLeap(y) THEN 1 ELSE 0)
\* date.toordinal()
ToOrdinal(d) == DaysBeforeYear(d[1]) + DaysBeforeMonth(d[1], d[2]) + d[3]

\* datetime.strptime(value, "%Y-%m-%d").date(), date.min on ValueError: the
\* date texts of the model, and any other text does not parse.
ParseIsoDate(value) ==
    CASE value = <<"2023-01-01">> -> <<2023, 1, 1>>
      [] value = <<"2024-01-01">> -> <<2024, 1, 1>>
      [] value = <<"2025-01-01">> -> <<2025, 1, 1>>
      [] OTHER -> DateMin

\* A key that orders by date alone.
SortKeyByDate(p) ==
    <<0, 0 - ToOrdinal(IF p.creation_date = None THEN DateMin
                       ELSE ParseIsoDate(p.creation_date))>>

\* sort_key raises AttributeError: "d.toordinal()" of a truthy d that is
\* neither a str nor None, a bool or an int.
SortKeyRaises(p) ==
    ~IsStr(p.creation_date) /\ p.creation_date # None /\ Truthy(p.creation_date)

\* (-pinned, -d.toordinal() if d else 0) with d the date parsed from a str,
\* date.min for None, and the value itself otherwise.
SortKeyOf(pinned, d) ==
    IF IsStr(d) THEN <<0 - pinned, 0 - ToOrdinal(ParseIsoDate(d))>>
    ELSE IF d = None THEN <<0 - pinned, 0 - ToOrdinal(DateMin)>>
    ELSE <<0 - pinned, 0>>

SortKey(p) == SortKeyOf(IF Truthy(p.pinned) THEN 1 ELSE 0, p.creation_date)

KeyLess(k1, k2) == k1[1] < k2[1] \/ (k1[1] = k2[1] /\ k1[2] < k2[2])

\* list.sort(key=sort_key) is stable: insert each project after the ones
\* whose key is not greater.
RECURSIVE InsertByKey(_, _)
InsertByKey(sorted, p) ==
    IF sorted = <<>> THEN <<p>>
    ELSE IF KeyLess(SortKey(p), SortKey(Head(sorted)))
         THEN <<p>> \o sorted
         ELSE <<Head(sorted)>> \o InsertByKey(Tail(sorted), p)

RECURSIVE SortProjects(_, _)
SortProjects(projects, i) ==
    IF i = 0 THEN <<>> ELSE InsertByKey(SortProjects(projects, i - 1), projects[i])

\* The loop over glob("*.md") from the i-th file on: order is the order
\* glob yields the slugs in, projects the list so far.
RECURSIVE LoadEach(_, _, _, _, _, _)

\* The body of the loop, l being load_project of the i-th slug.
KeepLoaded(l, projects, order, i, include_drafts, now) ==
    LoadEach(l.st,
             IF l.ret # <<>> /\ (include_drafts \/ ~Truthy(l.ret[1].is_draft))
             THEN projects \o l.ret ELSE projects,
             order, i + 1, include_drafts, now)

LoadEach(st, projects, order, i, include_drafts, now) ==
    IF i > Len(order) THEN [st |-> st, projects |-> projects]
    ELSE KeepLoaded(LoadProject(st, order[i], now), projects, order, i, include_drafts, now)

\* projects.sort(key=sort_key); return projects.  raised tells that a key
\* raised and with it the call.
SortLoaded(l) ==
    IF \E i \in DOMAIN l.projects : SortKeyRaises(l.projects[i])
    THEN [st |-> l.st, ret |-> <<>>, raised |-> TRUE]
    ELSE [st |-> l.st, ret |-> SortProjects(l.projects, Len(l.projects)), raised |-> FALSE]

LoadAllProjects(st, order, include_drafts, now) ==
    SortLoaded(LoadEach(st, <<>>, order, 1, include_drafts, now))

\* What a stored project may hold: each flag with each date, one date
\* that does not parse, one draft.
SortFms ==
    {[name |-> <<"n1">>, date |-> d, pinned |-> p] : d \in Dates, p \in PyBool}
        \cup {[name |-> <<"n1">>, date |-> <<"soon">>, pinned |-> PyFalse],
              [name |-> <<"n1">>, date |-> <<"2025-01-01">>, pinned |-> PyFalse,
               draft |-> PyTrue]}

StoredFile(fm) == [bytes |-> WriteText(SerializeFrontmatter(fm, <<"x">>)), mtime |-> 0]

GlobOrders ==
    {o \in [1..Cardinality(DOMAIN files) -> DOMAIN files] :
        \A i, j \in DOMAIN o : i # j => o[i] # o[j]}

SortInit ==
    /\ \E dir \in SUBSET SortSlugs :
        /\ Cardinality(dir) = MaxProjects
        /\ files \in [dir -> {StoredFile(fm) : fm \in SortFms}]
    /\ parseCache = <<>> /\ htmlCache = <<>>
    /\ clock = 0 /\ held = None /\ resp = NoResp
    /\ source = NoSource /\ resolutions = <<>>
    /\ s3hls = {} /\ NoUploads /\ NoCalls

\* load_all_projects returned r.
AllLoaded(include_drafts, r) ==
    /\ StoreBecomes(r.st)
    /\ resp' = [op |-> "load_all_projects", include_drafts |-> include_drafts,
                ret |-> r.ret, raised |-> r.raised]

SortLoadAll ==
    /\ \E order \in GlobOrders, include_drafts \in BOOLEAN :
        AllLoaded(include_drafts, LoadAllProjects(StoreNow, order, include_drafts, clock))
    /\ UNCHANGED <<clock, held>> /\ LadderIdle /\ VideoIdle /\ CallsIdle

SortNext == SortLoadAll

SpecSort == SortInit /\ [][SortNext]_vars

\* The frontmatter stored for slug.
StoredFm(slug) == ParseFrontmatter(ReadText(files[slug].bytes)).frontmatter
HasDate(p) == p.creation_date \in Dates
\* d1 is a later day than d2, for texts "YYYY-MM-DD".
Newer(p, q) ==
    LET a == ParseIsoDate(p.creation_date)
        b == ParseIsoDate(q.creation_date)
    IN \/ a[1] > b[1]
       \/ a[1] = b[1] /\ a[2] > b[2]
       \/ a[1] = b[1] /\ a[2] = b[2] /\ a[3] > b[3]

\* C5: load_all_projects returns each stored project (drafts only when
\* asked) once, every pinned project before every unpinned one, and within
\* each group no project before one of a newer date.
C5_PinnedFirstNewerFirst ==
    resp.op = "load_all_projects" =>
        LET ret == resp.ret
        IN /\ {ret[i].slug : i \in DOMAIN ret} =
                  {slug \in DOMAIN files :
                      resp.include_drafts \/ ~Truthy(Get(StoredFm(slug), "draft", PyFalse))}
           /\ \A i, j \in DOMAIN ret : i # j => ret[i].slug # ret[j].slug
           /\ \A i, j \in DOMAIN ret :
                 i < j =>
                     /\ ~(~Truthy(ret[i].pinned) /\ Truthy(ret[j].pinned))
                     /\ (Truthy(ret[i].pinned) = Truthy(ret[j].pinned)
                            /\ HasDate(ret[i]) /\ HasDate(ret[j])) => ~Newer(ret[j], ret[i])

\* A pinned 2024-01-01, B unpinned 2025-01-01, C pinned 2023-01-01 came
\* back as [A, C, B].
C5_WitnessExample ==
    /\ resp.op = "load_all_projects" /\ Len(resp.ret) = 3
    /\ resp.ret[1].slug = <<"a">> /\ resp.ret[2].slug = <<"c">> /\ resp.ret[3].slug = <<"b">>
    /\ Truthy(resp.ret[1].pinned) /\ resp.ret[1].creation_date = <<"2024-01-01">>
    /\ Truthy(resp.ret[2].pinned) /\ resp.ret[2].creation_date = <<"2023-01-01">>
    /\ ~Truthy(resp.ret[3].pinned) /\ resp.ret[3].creation_date = <<"2025-01-01">>

-----------------------------------------------------------------------------
(* The HLS ladder.  A float of the code is the exact quotient, a numerator *)
(* over a denominator, except where rounding error decides the outcome:    *)
(* a product that is exactly an odd integer may come out on either side of *)
(* it, and of two aspect drifts that are exactly equal either may compare  *)
(* smaller.  There the operators yield every outcome; they are sets.       *)

MaxSmall == 8

Max(a, b) == IF a >= b THEN a ELSE b
Min(a, b) == IF a <= b THEN a ELSE b
Abs(a) == IF a < 0 THEN 0 - a ELSE a

\* (target height, bitrate), highest first.
HLS_HEIGHT_BITRATE_LADDER ==
    <<<<2160, 12000>>, <<1440, 8000>>, <<1080, 5000>>, <<720, 2500>>,
      <<480, 1200>>, <<360, 800>>, <<240, 400>>>>

search_radius == 12

\* A flooring that keeps odd values.
FloorKeepOdd(value) == Max(2, value)

FloorEven(value) == Max(2, IF value % 2 # 0 THEN value - 1 ELSE value)

\* round(num / den): to the nearest integer, a tie to the even one.
PyRound(num, den) ==
    LET q == num \div den
        r == num % den
    IN IF 2 * r < den THEN q
       ELSE IF 2 * r > den THEN q + 1
       ELSE IF q % 2 = 0 THEN q ELSE q + 1

\* _round_even(num / den): an odd rounded value moves up when the value is
\* at least it and down otherwise; a value that is exactly the odd integer
\* goes either way.
RoundEven(num, den) ==
    LET rounded == PyRound(num, den)
    IN IF rounded % 2 = 0 THEN {Max(2, rounded)}
       ELSE IF num = rounded * den THEN {Max(2, rounded + 1), Max(2, rounded - 1)}
       ELSE IF num > rounded * den THEN {Max(2, rounded + 1)}
       ELSE {Max(2, rounded - 1)}

\* The candidates of the loop over range(start, end + 1): one height once
\* (seen_heights), with the width the loop computes for it.
Candidates(start, end, sw, sh) ==
    UNION {{[width |-> Min(w, FloorEven(sw)), height |-> FloorEven(raw_height)] :
               w \in RoundEven(FloorEven(raw_height) * sw, sh)} :
           raw_height \in start..end}

\* aspect_drift = abs((width / height) - source_ratio), times height * sh.
DriftLess(c, d, sw, sh) ==
    Abs(c.width * sh - sw * c.height) * d.height
        < Abs(d.width * sh - sw * d.height) * c.height

\* score < other for the tuples (aspect_drift, height_delta, -height).
ScoreLess(c, d, sw, sh, capped) ==
    LET ch == Abs(c.height - capped)
        dh == Abs(d.height - capped)
    IN \/ DriftLess(c, d, sw, sh)
       \/ ~DriftLess(d, c, sw, sh) /\ ch < dh
       \/ ~DriftLess(d, c, sw, sh) /\ ch = dh /\ 0 - c.height < 0 - d.height

\* c may end the loop as best: at every other height some candidate does
\* not beat it, where equal drifts may compare either way.
MayBeBest(c, cands, sw, sh, capped) ==
    \A h \in {d.height : d \in cands} \ {c.height} :
        \E d \in cands :
            /\ d.height = h
            /\ \/ ~ScoreLess(d, c, sw, sh, capped)
               \/ ~DriftLess(d, c, sw, sh) /\ ~DriftLess(c, d, sw, sh)

\* The (width, height) pairs the call may return.
PickStableVariantDimensions(source_width, source_height, target_height) ==
    LET sw == Max(2, source_width)
        sh == Max(2, source_height)
        capped == FloorEven(Min(Max(2, target_height), sh))
        start == Max(2, capped - search_radius)
        end == Min(sh, capped + search_radius)
        cands == {c \in Candidates(start, end, sw, sh) : c.height >= 2 /\ c.width >= 2}
    IN IF cands # {}
       THEN {<<c.width, c.height>> : c \in {d \in cands : MayBeBest(d, cands, sw, sh, capped)}}
       ELSE {<<Max(2, Min(w, FloorEven(sw))), Max(2, FloorEven(capped))>> :
                w \in RoundEven(FloorEven(capped) * sw, sh)}

\* The loop over the ladder from rung i on: the lists it may end with.
RECURSIVE LadderFrom(_, _, _, _)
LadderFrom(i, acc, source_width, source_height) ==
    IF i > Len(HLS_HEIGHT_BITRATE_LADDER) THEN {acc}
    ELSE LET target_height == HLS_HEIGHT_BITRATE_LADDER[i][1]
             bitrate == HLS_HEIGHT_BITRATE_LADDER[i][2]
         IN IF target_height >= 720 /\ source_height < target_height
            THEN LadderFrom(i + 1, acc, source_width, source_height)
            ELSE UNION {
                IF \E k \in DOMAIN acc : <<acc[k][1], acc[k][2]>> = dims
                THEN LadderFrom(i + 1, acc, source_width, source_height)
                ELSE LadderFrom(i + 1, Append(acc, <<dims[1], dims[2], bitrate>>),
                                source_width, source_height) :
                dims \in PickStableVariantDimensions(source_width, source_height,
                                                     target_height)}

\* The rendition lists the call may return.
BuildHlsResolutions(source_width, source_height) ==
    {IF built # <<>> THEN built
     ELSE <<<<FloorEven(source_width), FloorEven(source_height), 800>>>> :
        built \in LadderFrom(1, <<>>, source_width, source_height)}

\* Sources: every small size, and the sizes at and next to the rungs.
SourceWidths == (2..MaxSmall) \cup {426, 853, 1280, 1919, 1920, 3840}
SourceHeights == (2..MaxSmall) \cup {239, 240, 479, 719, 720, 1080, 1081, 2160}

LadderInit ==
    /\ files = NoFiles /\ parseCache = <<>> /\ htmlCache = <<>>
    /\ clock = 0 /\ held = None /\ resp = NoResp
    /\ source \in SourceWidths \X SourceHeights /\ resolutions = <<>>
    /\ s3hls = {} /\ NoUploads /\ NoCalls

\* The one call on the source drawn.
LadderBuild ==
    /\ resp = NoResp
    /\ resolutions' \in BuildHlsResolutions(source[1], source[2])
    /\ resp' = [op |-> "_build_hls_resolutions"]
    /\ UNCHANGED <<files, parseCache, htmlCache, clock, held, source>> /\ VideoIdle /\ CallsIdle

LadderNext == LadderBuild

SpecLadder == LadderInit /\ [][LadderNext]_vars

\* C8: for a source of at least 2 by 2 the rendition list is not empty, each
\* rendition is even and at least 2 in both dimensions and no larger than
\* the source in either, and a rendition at the bitrate of a rung of 720 or
\* above appears only when the source is at least as high as the rung.
C8_LadderEvenWithinSource ==
    resp.op = "_build_hls_resolutions" =>
        /\ resolutions # <<>>
        /\ \A i \in DOMAIN resolutions :
              /\ resolutions[i][1] % 2 = 0 /\ resolutions[i][1] >= 2
              /\ resolutions[i][2] % 2 = 0 /\ resolutions[i][2] >= 2
              /\ resolutions[i][1] <= source[1]
              /\ resolutions[i][2] <= source[2]
              /\ \A r \in DOMAIN HLS_HEIGHT_BITRATE_LADDER :
                    (HLS_HEIGHT_BITRATE_LADDER[r][1] >= 720
                        /\ HLS_HEIGHT_BITRATE_LADDER[r][2] = resolutions[i][3]) =>
                        source[2] >= HLS_HEIGHT_BITRATE_LADDER[r][1]

\* The ladder of a 1920 by 1080 source was built, from 1080 down to 240.
C8_WitnessFullHd ==
    /\ resp.op = "_build_hls_resolutions"
    /\ source = <<1920, 1080>>
    /\ Len(resolutions) = 5
    /\ resolutions[1] = <<1920, 1080, 5000>>
    /\ resolutions[5][3] = 400

-----------------------------------------------------------------------------
(* Hero video uploads: video-thumbnails, its two background threads,       *)
(* generate-sprite-sheet with its polling loop, and the cleanup sweep.     *)
(* The clock counts hours.  The n-th id handed out is n; 0 stands for an   *)
(* id the client leaves out.  An async handler runs to its end without     *)
(* yielding, so no other request is served while one polls; the threads    *)
(* run at any time.                                                        *)

MaxUploads == 2
\* max_wait is 300 rounds of one second; the model polls MaxPolls rounds.
MaxPolls == 2
\* timedelta(hours=1)
Expiry == 1

VideoSlug == <<"a">>
Ids == 1..MaxUploads

\* str(int(time.time())) at the start of the n-th encode; two encodes of a
\* slug start in different seconds.
Versions == <<"v1", "v2", "v3", "v4">>
EncodedUrl(n) == HlsUrl(encodes[n].slug, Versions[n])

Without(f, k) == [x \in (DOMAIN f) \ {k} |-> f[x]]
\* An update that stores the fields under an id the store does not hold.
UpdateCreates(f, k, changes) ==
    IF k \in DOMAIN f THEN [f EXCEPT ![k] = changes @@ @] ELSE (k :> changes) @@ f

\* What store.update(id, **kwargs) returns: False when the id is gone.
Updated(f, k) == k \in DOMAIN f

\* store.update(id, **kwargs): nothing when the id is gone.
Update(f, k, changes) ==
    IF k \in DOMAIN f THEN [f EXCEPT ![k] = changes @@ @] ELSE f

\* A cleanup that leaves the files on disk.
UnlinksNothing(ids) == {}

\* The local files the entries ids name, what os.unlink is called on: those
\* with neither is_remote nor _is_remote_video_source(path).  A local path
\* is the number of its upload; an entry whose path is a URL is created with
\* is_remote=True, so the flag decides.
LocalPaths(ids) == {tempVideoFiles[n].path : n \in {m \in ids : ~tempVideoFiles[m].is_remote}}

\* An expiry test that removes the young entries.
ExpiredInverted(timestamp, now) == now - timestamp < Expiry

\* age > expiry
Expired(timestamp, now) == now - timestamp > Expiry

VideoInit ==
    /\ files = (VideoSlug :>
                   [bytes |-> WriteText(SerializeFrontmatter(
                                  [name |-> <<"n1">>, slug |-> VideoSlug,
                                   date |-> <<"2024-01-01">>, pinned |-> PyFalse,
                                   draft |-> PyFalse], <<"x">>)),
                    mtime |-> 0])
    /\ parseCache = <<>> /\ htmlCache = <<>>
    /\ clock = 0 /\ held = None /\ resp = NoResp
    /\ source = NoSource /\ resolutions = <<>>
    /\ s3hls = {} /\ NoUploads /\ NoCalls

\* video_thumbnails: the upload is stored, its first frames extracted, the
\* extraction thread started and, with a project_slug, the encode as well.
VideoThumbnails ==
    /\ gen = NoGen
    /\ issued < MaxUploads
    /\ \E project_slug \in {None, VideoSlug, <<"A">>} :
        LET n == issued + 1
        IN IF Truthy(project_slug) /\ ~ValidateSlug(project_slug)
           THEN /\ resp' = [op |-> "video_thumbnails", status |-> 400]
                /\ UNCHANGED <<tempVideoFiles, hlsSessions, tmpfs, encodes, extracts, issued>>
           ELSE /\ tmpfs' = tmpfs \cup {n}
                /\ tempVideoFiles' =
                       (n :> [path |-> n, frames |-> "initial", frames_complete |-> FALSE,
                              is_remote |-> FALSE, timestamp |-> clock]) @@ tempVideoFiles
                /\ extracts' = (n :> "running") @@ extracts
                /\ issued' = n
                /\ IF Truthy(project_slug)
                   THEN /\ hlsSessions' =
                               (n :> [status |-> "processing",
                                      stage |-> "Starting HLS encoding...",
                                      progress |-> 0, hls_url |-> None,
                                      temp_id |-> n, slug |-> project_slug,
                                      error |-> None, timestamp |-> clock]) @@ hlsSessions
                        /\ encodes' = (n :> [state |-> "running", slug |-> project_slug])
                                          @@ encodes
                        /\ resp' = [op |-> "video_thumbnails", status |-> 200,
                                    temp_id |-> n, hls_session_id |-> n]
                   ELSE /\ UNCHANGED <<hlsSessions, encodes>>
                        /\ resp' = [op |-> "video_thumbnails", status |-> 200,
                                    temp_id |-> n, hls_session_id |-> 0]
    /\ UNCHANGED <<files, parseCache, htmlCache, clock, held, s3hls, gen>> /\ LadderIdle /\ CallsIdle

\* video_thumbnails_existing answered for l = load_project(project_slug):
\* with a saved hero video whose first frames are extracted (ok) the entry
\* of the remote source is stored and the extraction thread started.
ExistingAnswered(project_slug, ok, l) ==
    LET n == issued + 1
        status == IF l.ret = <<>> THEN 404
                  ELSE IF ~Truthy(l.ret[1].video_link) THEN 400
                  ELSE IF ~ok THEN 500 ELSE 200
    IN /\ StoreBecomes(l.st)
       /\ resp' = [op |-> "video_thumbnails_existing", status |-> status,
                   temp_id |-> IF status = 200 THEN n ELSE 0]
       /\ IF status = 200
          THEN /\ tempVideoFiles' =
                      (n :> [path |-> l.ret[1].video_link, frames |-> "initial",
                             frames_complete |-> FALSE, is_remote |-> TRUE,
                             timestamp |-> clock]) @@ tempVideoFiles
               /\ extracts' = (n :> "running") @@ extracts
               /\ issued' = n
          ELSE UNCHANGED <<tempVideoFiles, extracts, issued>>

\* video_thumbnails_existing
VideoThumbnailsExisting ==
    /\ gen = NoGen
    /\ issued < MaxUploads
    /\ \E project_slug \in {VideoSlug, <<"A">>}, ok \in BOOLEAN :
        IF ~ValidateSlug(project_slug)
        THEN /\ resp' = [op |-> "video_thumbnails_existing", status |-> 400, temp_id |-> 0]
             /\ UNCHANGED <<files, parseCache, htmlCache, tempVideoFiles, extracts, issued>>
        ELSE ExistingAnswered(project_slug, ok, LoadProject(StoreNow, project_slug, clock))
    /\ UNCHANGED <<clock, held, s3hls, hlsSessions, tmpfs, encodes, gen>>
    /\ LadderIdle /\ CallsIdle

\* An except clause that only logs.
ExtractFailureLogged(ok) ==
    IF ok THEN [frames |-> "all", frames_complete |-> TRUE] ELSE <<>>

\* The keyword arguments of the update extract_remaining_frames makes when
\* extract_thumbnail_frames returned (ok) and when it raised.
ExtractUpdate(ok) ==
    IF ok THEN [frames |-> "all", frames_complete |-> TRUE]
    ELSE [frames_complete |-> TRUE]

\* extract_remaining_frames ends, with all frames or with an exception.
ExtractRemainingFrames ==
    /\ \E n \in DOMAIN extracts, ok \in BOOLEAN :
        /\ extracts[n] = "running"
        /\ extracts' = [extracts EXCEPT ![n] = IF ok THEN "done" ELSE "raised"]
        /\ tempVideoFiles' = Update(tempVideoFiles, n, ExtractUpdate(ok))
    /\ resp' = [op |-> "thread"]
    /\ UNCHANGED <<files, parseCache, htmlCache, clock, held, s3hls,
                   hlsSessions, tmpfs, encodes, gen, issued>> /\ LadderIdle /\ CallsIdle

\* A thread whose body may run again after it has raised.
ThreadRestarted(n) == encodes[n].state \in {"running", "error"}

\* The thread of the n-th upload is in run_hls_encoding: it is started once
\* and its body runs once.
ThreadRunning(n) == encodes[n].state = "running"

\* run_hls_encoding ends: generate_hls_only uploaded the version and
\* returned its URL.
RunHlsEncodingComplete ==
    /\ \E n \in DOMAIN encodes :
        /\ ThreadRunning(n)
        /\ s3hls' = s3hls \cup {[slug |-> encodes[n].slug, version |-> Versions[n]]}
        /\ hlsSessions' = Update(hlsSessions, n,
                                 [status |-> "complete", stage |-> "HLS complete!",
                                  progress |-> 100, hls_url |-> EncodedUrl(n)])
        /\ encodes' = [encodes EXCEPT ![n].state = "complete"]
    /\ resp' = [op |-> "thread"]
    /\ UNCHANGED <<files, parseCache, htmlCache, clock, held,
                   tempVideoFiles, tmpfs, extracts, gen, issued>> /\ LadderIdle /\ CallsIdle

\* run_hls_encoding ends: generate_hls_only raised, before or during the
\* upload of its files.
RunHlsEncodingError ==
    /\ \E n \in DOMAIN encodes, uploaded \in BOOLEAN :
        /\ ThreadRunning(n)
        /\ s3hls' = IF uploaded
                    THEN s3hls \cup {[slug |-> encodes[n].slug, version |-> Versions[n]]}
                    ELSE s3hls
        /\ hlsSessions' = Update(hlsSessions, n,
                                 [status |-> "error", stage |-> "HLS encoding failed",
                                  error |-> <<"error">>])
        /\ encodes' = [encodes EXCEPT ![n].state = "error"]
    /\ resp' = [op |-> "thread"]
    /\ UNCHANGED <<files, parseCache, htmlCache, clock, held,
                   tempVideoFiles, tmpfs, extracts, gen, issued>> /\ LadderIdle /\ CallsIdle

\* The URLs a client may have learned from hls-progress or from a
\* generate-sprite-sheet response.
KnownUrls == {EncodedUrl(n) : n \in {m \in DOMAIN encodes : encodes[m].state = "complete"}}

\* The save-project request of the project with video.hls set to url, or
\* with no video.
VideoSaveRequest(url) ==
    [ProjectData(VideoSlug, <<"n1">>, PyFalse, <<"x">>) EXCEPT
        !.video = IF url = None THEN <<>> ELSE [hls |-> url]]
        @@ [original_slug |-> VideoSlug, base_revision |-> None, force |-> PyFalse]

\* save_project_endpoint answered r.
VideoSaveAnswered(url, r) ==
    /\ Answered(r)
    /\ resp' = [op |-> "save_project_endpoint", status |-> r.status, hls |-> url]

\* save-project with a URL the client knows, or with no video.
ReqSaveVideo ==
    /\ gen = NoGen
    /\ \E url \in KnownUrls \cup {None} :
        VideoSaveAnswered(url, SaveProjectEndpoint(StoreNow, s3hls, VideoSaveRequest(url), clock))
    /\ UNCHANGED <<clock, held>> /\ LadderIdle /\ CallsIdle

\* The end of generate_sprite_sheet_endpoint from the polling loop on:
\* hls_url is what the loop left (None when it found nothing), detail the
\* HTTPException the loop raised (<<>> when none), polled what the last
\* round found, after polls rounds, and l is load_project(project_slug),
\* called only when the loop left no URL.  The finally clause runs in every
\* case.
GenEnd(temp_id, sid, hls_url, detail, polled, polls, l) ==
    LET fallback == IF l.ret # <<>> THEN l.ret[1].video_link ELSE None
        url == IF Truthy(hls_url) THEN hls_url ELSE fallback
    IN /\ IF detail # <<>> THEN UNCHANGED <<files, parseCache, htmlCache>>
          ELSE IF Truthy(hls_url) THEN UNCHANGED <<files, parseCache, htmlCache>>
          ELSE StoreBecomes(l.st)
       /\ resp' = (IF detail # <<>> \/ ~Truthy(url)
                   THEN [op |-> "generate_sprite_sheet_endpoint", status |-> 500,
                         temp_id |-> temp_id, hls_session_id |-> sid,
                         detail |-> IF detail # <<>> THEN detail
                                    ELSE <<"HLS URL unavailable after sprite generation">>,
                         polled |-> polled, polls |-> polls]
                   ELSE [op |-> "generate_sprite_sheet_endpoint", status |-> 200,
                         temp_id |-> temp_id, hls_session_id |-> sid,
                         video |-> [hls |-> url, thumbnail |-> temp_id,
                                    spriteSheet |-> temp_id],
                         polled |-> polled, polls |-> polls])
                  @@ [removed_temp |-> IF temp_id \in DOMAIN tempVideoFiles
                                       THEN <<tempVideoFiles[temp_id]>> ELSE <<>>,
                      unlinked |-> LocalPaths({temp_id} \cap DOMAIN tempVideoFiles) \cap tmpfs]
       /\ tempVideoFiles' = Without(tempVideoFiles, temp_id)
       /\ tmpfs' = tmpfs \ LocalPaths({temp_id} \cap DOMAIN tempVideoFiles)
       /\ hlsSessions' = IF sid # 0 THEN Without(hlsSessions, sid) ELSE hlsSessions
       /\ gen' = NoGen

GenFinish(temp_id, sid, hls_url, detail, polled, polls) ==
    GenEnd(temp_id, sid, hls_url, detail, polled, polls,
           LoadProject(StoreNow, VideoSlug, clock))

\* generate_sprite_sheet_endpoint up to its polling loop: the checks and the
\* sprite sheet, which is generated (ok) or raises; without an
\* hls_session_id there is no loop.
GenerateSpriteSheet ==
    /\ gen = NoGen
    /\ \E temp_id \in Ids, sid \in Ids \cup {0}, ok \in BOOLEAN :
        IF \/ temp_id \notin DOMAIN tempVideoFiles
           \/ LocalPaths({temp_id} \cap DOMAIN tempVideoFiles) \ tmpfs # {}
        THEN /\ resp' = [op |-> "generate_sprite_sheet_endpoint", status |-> 400,
                         temp_id |-> temp_id, hls_session_id |-> sid]
             /\ UNCHANGED <<files, parseCache, htmlCache, tempVideoFiles, hlsSessions,
                            tmpfs, gen>>
        ELSE IF ~ok
        THEN GenFinish(temp_id, sid, None, <<"Sprite sheet generation failed: ">>, <<>>, 0)
        ELSE IF sid = 0
        THEN GenFinish(temp_id, sid, None, <<>>, <<>>, 0)
        ELSE /\ gen' = [pc |-> "poll", temp_id |-> temp_id, sid |-> sid, waited |-> 0]
             /\ UNCHANGED <<files, parseCache, htmlCache, resp, tempVideoFiles,
                            hlsSessions, tmpfs>>
    /\ UNCHANGED <<clock, held, s3hls, encodes, extracts, issued>> /\ LadderIdle /\ CallsIdle

\* A loop that sleeps on while the session is in error.
PollIgnoresError(session) ==
    IF session = <<>> THEN "missing"
    ELSE IF session[1].status = "complete" THEN "complete" ELSE "processing"

\* What a round of the loop finds in session = _hls_sessions.get(id).
PollOutcome(session) ==
    IF session = <<>> THEN "missing"
    ELSE IF session[1].status = "complete" THEN "complete"
    ELSE IF session[1].status = "error" THEN "error"
    ELSE "processing"

\* The HTTPException the loop raises when a round found outcome and waited
\* sleeps were made, <<>> when it raises none.
PollDetail(outcome, session, waited) ==
    IF outcome = "error" THEN <<"HLS encoding failed: ">> \o session[1].error
    ELSE IF outcome = "processing" /\ waited >= MaxPolls THEN <<"HLS encoding timed out">>
    ELSE <<>>

\* The status and error of the session a round found.
Polled(session) ==
    IF session = <<>> THEN <<>>
    ELSE <<[status |-> session[1].status, error |-> session[1].error]>>

\* A round that found outcome: the loop sleeps and goes on, or the handler
\* ends.
PollRound(session, outcome) ==
    IF outcome = "processing" /\ gen.waited + 1 < MaxPolls
    THEN /\ gen' = [gen EXCEPT !.waited = @ + 1]
         /\ UNCHANGED <<files, parseCache, htmlCache, resp, tempVideoFiles,
                        hlsSessions, tmpfs>>
    ELSE GenFinish(gen.temp_id, gen.sid,
                   IF outcome = "complete" THEN session[1].hls_url ELSE None,
                   PollDetail(outcome, session,
                              IF outcome = "processing" THEN gen.waited + 1 ELSE gen.waited),
                   Polled(session), gen.waited + 1)

\* One round of the polling loop and, when it leaves the loop, the rest of
\* the handler.
GenPoll ==
    /\ gen.pc = "poll"
    /\ PollRound(IF gen.sid \in DOMAIN hlsSessions THEN <<hlsSessions[gen.sid]>> ELSE <<>>,
                 PollOutcome(IF gen.sid \in DOMAIN hlsSessions
                             THEN <<hlsSessions[gen.sid]>> ELSE <<>>))
    /\ UNCHANGED <<clock, held, s3hls, encodes, extracts, issued>> /\ LadderIdle /\ CallsIdle

\* The loop over the expired sessions, in the order of the snapshot: for a
\* complete one the project is loaded and the versions it does not name
\* are removed.  Returns [st, s3].
RECURSIVE SweepSessions(_, _, _, _)

\* The body of the loop for the complete session n, l being
\* load_project of its slug.
SweepLoaded(n, l, s3, now) ==
    SweepSessions(n + 1, l.st,
                  CleanupOldHlsVersions(s3, hlsSessions[n].slug,
                                        IF l.ret # <<>> THEN l.ret[1].video_link ELSE None),
                  now)

SweepSessions(n, st, s3, now) ==
    IF n > issued THEN [st |-> st, s3 |-> s3]
    ELSE IF n \in DOMAIN hlsSessions
            /\ Expired(hlsSessions[n].timestamp, now)
            /\ hlsSessions[n].status = "complete"
            /\ Truthy(hlsSessions[n].slug)
    THEN SweepLoaded(n, LoadProject(st, hlsSessions[n].slug, now), s3, now)
    ELSE SweepSessions(n + 1, st, s3, now)

\* The sweep removed the expired entries; swept is what the loop over the
\* expired sessions left of the store and of remote storage.
Swept(expired_ids, expired_hls_ids, swept) ==
    /\ tmpfs' = tmpfs \ LocalPaths(expired_ids)
    /\ tempVideoFiles' = [n \in (DOMAIN tempVideoFiles) \ expired_ids |-> tempVideoFiles[n]]
    /\ hlsSessions' = [n \in (DOMAIN hlsSessions) \ expired_hls_ids |-> hlsSessions[n]]
    /\ StoreBecomes(swept.st)
    /\ s3hls' = swept.s3
    /\ resp' = [op |-> "cleanup_old_temp_videos",
                temps |-> tempVideoFiles, sessions |-> hlsSessions,
                disk |-> tmpfs, remote |-> s3hls]

\* cleanup_old_temp_videos
CleanupOldTempVideos ==
    /\ gen = NoGen
    /\ Swept({n \in DOMAIN tempVideoFiles : Expired(tempVideoFiles[n].timestamp, clock)},
             {n \in DOMAIN hlsSessions : Expired(hlsSessions[n].timestamp, clock)},
             SweepSessions(1, StoreNow, s3hls, clock))
    /\ UNCHANGED <<clock, held, encodes, extracts, gen, issued>> /\ LadderIdle /\ CallsIdle

\* Uploads that are abandoned: no generate-sprite-sheet request is made.
VideoNext ==
    \/ VideoThumbnails
    \/ ExtractRemainingFrames
    \/ RunHlsEncodingComplete
    \/ RunHlsEncodingError
    \/ ReqSaveVideo
    \/ CleanupOldTempVideos
    \/ Tick

SpecVideo == VideoInit /\ [][VideoNext]_vars

\* Uploads that are confirmed within the hour: no sweep runs.
SpriteNext ==
    \/ VideoThumbnails
    \/ ExtractRemainingFrames
    \/ RunHlsEncodingComplete
    \/ RunHlsEncodingError
    \/ ReqSaveVideo
    \/ GenerateSpriteSheet
    \/ GenPoll

SpecSprite == VideoInit /\ [][SpriteNext]_vars

\* The HLS URL saved on the project, None when it has none.
SavedHls ==
    Get(Get(ParseFrontmatter(ReadText(files[VideoSlug].bytes)).frontmatter, "video", <<>>),
        "hls", None)

C10_SpriteHlsIsSessionUrl ==
    (resp.op = "generate_sprite_sheet_endpoint" /\ resp.status = 200
        /\ resp.hls_session_id # 0) =>
        /\ resp.hls_session_id \in DOMAIN encodes
        /\ encodes[resp.hls_session_id].state = "complete"
        /\ resp.video.hls = EncodedUrl(resp.hls_session_id)

-----------------------------------------------------------------------------
(* The life of an HLS session: the encode thread reports progress and ends, *)
(* the client polls hls-progress and the frames, confirms the sprite range  *)
(* or abandons the upload, and the sweep runs as hours pass.                *)

\* The (stage, progress) pairs generate_hls_only reports, in their order.
ProgressSteps == {<<"Generating HLS streams...", 10>>, <<"HLS complete!", 100>>}

\* progress_callback(stage, progress): an update of stage and progress.
\* Nothing changes when the session is gone.
RunHlsProgress ==
    /\ \E n \in DOMAIN encodes, step \in ProgressSteps :
        /\ ThreadRunning(n)
        /\ n \in DOMAIN hlsSessions
        /\ step[2] > hlsSessions[n].progress
        /\ hlsSessions' = Update(hlsSessions, n, [stage |-> step[1], progress |-> step[2]])
    /\ resp' = [op |-> "thread"]
    /\ UNCHANGED <<files, parseCache, htmlCache, clock, held, s3hls,
                   tempVideoFiles, tmpfs, encodes, extracts, gen, issued>> /\ LadderIdle /\ CallsIdle

\* The JSON get_hls_progress answers for session, <<>> when there is none.
HlsProgressBody(session) ==
    IF session = <<>> THEN [status |-> "unknown", stage |-> "Session not found", progress |-> 0]
    ELSE [status |-> session[1].status, stage |-> session[1].stage,
          progress |-> session[1].progress]
         @@ (IF session[1].status = "complete" /\ Truthy(session[1].hls_url)
             THEN [hls_url |-> session[1].hls_url] ELSE <<>>)
         @@ (IF session[1].status = "error" THEN [error |-> session[1].error] ELSE <<>>)

\* _hls_sessions.get(session_id): <<>> for None.
SessionGet(sid) == IF sid \in DOMAIN hlsSessions THEN <<hlsSessions[sid]>> ELSE <<>>

\* get_hls_progress
GetHlsProgress ==
    /\ gen = NoGen
    /\ \E sid \in Ids :
        resp' = [op |-> "get_hls_progress", session_id |-> sid,
                 body |-> HlsProgressBody(SessionGet(sid))]
    /\ UNCHANGED <<files, parseCache, htmlCache, clock, held, s3hls, tempVideoFiles,
                   hlsSessions, tmpfs, encodes, extracts, gen, issued>> /\ LadderIdle /\ CallsIdle

SessionNext ==
    \/ VideoThumbnails
    \/ RunHlsProgress
    \/ RunHlsEncodingComplete
    \/ RunHlsEncodingError
    \/ GetHlsProgress
    \/ GenerateSpriteSheet
    \/ GenPoll
    \/ CleanupOldTempVideos
    \/ Tick

SpecSession == VideoInit /\ [][SessionNext]_vars

\* C11: in every step, a session that stays in the store keeps its status or
\* moves from processing to complete or to error, and a session that enters
\* the store is processing; so a complete or error session never changes
\* status again.
C11_StatusOnlyLeavesProcessing ==
    [][\A n \in DOMAIN hlsSessions' :
          IF n \in DOMAIN hlsSessions
          THEN \/ hlsSessions'[n].status = hlsSessions[n].status
               \/ /\ hlsSessions[n].status = "processing"
                  /\ hlsSessions'[n].status \in {"complete", "error"}
          ELSE hlsSessions'[n].status = "processing" /\ n = issued']_vars

\* A failed session was polled and a complete one was in the store when the
\* sweep ran.
C11_WitnessTerminalPolled ==
    /\ resp.op = "get_hls_progress" /\ resp.body.status = "error"
    /\ \E n \in DOMAIN hlsSessions : hlsSessions[n].status = "complete"

-----------------------------------------------------------------------------
(* load_all_projects over projects whose date is missing, empty, no ISO    *)
(* date or no str at all.                                                  *)

DateSlugs == {<<"a">>, <<"b">>}
\* Dates that are no date: the empty str, a word, a bool, an int.
OddDates == {<<>>, <<"soon">>, PyTrue, PyFalse, PyInt0, PyInt2024}

DateFms ==
    {[name |-> <<"n1">>, date |-> d, pinned |-> p] :
        d \in OddDates \cup {<<"2024-01-01">>}, p \in PyBool}
        \cup {[name |-> <<"n1">>, pinned |-> p] : p \in PyBool}

DateInit ==
    /\ files \in [DateSlugs -> {StoredFile(fm) : fm \in DateFms}]
    /\ parseCache = <<>> /\ htmlCache = <<>>
    /\ clock = 0 /\ held = None /\ resp = NoResp
    /\ source = NoSource /\ resolutions = <<>>
    /\ s3hls = {} /\ NoUploads /\ NoCalls

DateLoadAll == SortLoadAll

DateNext == DateLoadAll

SpecDates == DateInit /\ [][DateNext]_vars

\* C12: load_all_projects does not raise whatever the stored dates are, it
\* returns every stored project, and a project whose date is no ISO date
\* comes after every project of its pinned or unpinned group that has one.
C12_BadDateSortsOldest ==
    resp.op = "load_all_projects" =>
        /\ ~resp.raised
        /\ {resp.ret[i].slug : i \in DOMAIN resp.ret} = DOMAIN files
        /\ \A i, j \in DOMAIN resp.ret :
              (i < j /\ Truthy(resp.ret[i].pinned) = Truthy(resp.ret[j].pinned)
                  /\ HasDate(resp.ret[j])) => HasDate(resp.ret[i])

-----------------------------------------------------------------------------
(* Files whose frontmatter block is no YAML mapping: load_project of a     *)
(* file written by hand.                                                   *)

\* A mapping, a line with a second key in it (a YAMLError), a plain word, a
\* sequence, and the scalars true, 2024, 0 and null.
FmBlocks ==
    {<<"name:", "n1">>, <<"name:", "n1", SP, "slug:", "a">>, <<"x">>, <<DASH, SP, "x">>,
     <<"true">>, <<"2024">>, <<"0">>, <<"null">>}

BlockBody == <<"x">>

BlockFile(block) ==
    [bytes |-> WriteText(<<DASH, DASH, DASH, NL>> \o block \o <<NL, DASH, DASH, DASH, NL, NL>>
                             \o BlockBody),
     mtime |-> 0]

BlockInit ==
    /\ files \in [DateSlugs -> {BlockFile(b) : b \in FmBlocks}]
    /\ parseCache = <<>> /\ htmlCache = <<>>
    /\ clock = 0 /\ held = None /\ resp = NoResp
    /\ source = NoSource /\ resolutions = <<>>
    /\ s3hls = {} /\ NoUploads /\ NoCalls

BlockOf(slug) == CHOOSE b \in FmBlocks : files[slug] = BlockFile(b)

\* load_project(slug) returned or raised.
BlockLoaded(slug, r) ==
    /\ StoreBecomes(r.st)
    /\ resp' = [op |-> "load_project", slug |-> slug, block |-> BlockOf(slug),
                ret |-> r.ret, raised |-> r.raised]

BlockLoad ==
    /\ \E slug \in DateSlugs : BlockLoaded(slug, LoadProject(StoreNow, slug, clock))
    /\ UNCHANGED <<clock, held>> /\ LadderIdle /\ VideoIdle /\ CallsIdle

BlockNext == BlockLoad

SpecBlocks == BlockInit /\ [][BlockNext]_vars

\* The record of a file without frontmatter.
IsDefaultRecord(p, slug) ==
    /\ p.name = slug /\ p.is_draft = PyFalse /\ p.pinned = PyFalse
    /\ p.creation_date = None /\ p.youtube_link = None
    /\ p.video_link = None /\ p.thumbnail_link = None /\ p.sprite_sheet_link = None
    /\ p.markdown_content = BlockBody

\* C13: load_project of a file whose frontmatter block does not parse into a
\* YAML mapping (a syntax error, a scalar, a list) never raises: it returns
\* the record of an empty frontmatter (name = slug, is_draft and pinned
\* false, the video fields None) with the body.
C13_UnparsableBlockGivesDefaults ==
    (resp.op = "load_project" /\ resp.block # <<"name:", "n1">>) =>
        /\ ~resp.raised
        /\ Len(resp.ret) = 1
        /\ IsDefaultRecord(resp.ret[1], resp.slug)

-----------------------------------------------------------------------------
(* The store under threads.  A call of load_project, save_project or        *)
(* delete_project is taken one filesystem access or locked section at a    *)
(* time; calls[t] is the position of thread t and the locals it holds.     *)

ThreadSlugs == {<<"a">>, <<"b">>, <<"c">>}
ThreadFm == [name |-> <<"n1">>]
\* Bodies of one length: the files they are saved in have one size.
ThreadBodies == {<<"x">>, <<"y">>}

With(c, r) == r @@ c

\* Whether c is a save or a delete of slug in progress.
Writing(c, slug) == c.op \in {"save_project", "delete_project"} /\ c.slug = slug

\* A load of slug in progress overlaps the save or delete that begins.
Overlapped(c, slug) ==
    IF c.op = "load_project" /\ c.slug = slug THEN [c EXCEPT !.clean = FALSE] ELSE c

CallBecomes(t, c) == calls' = [calls EXCEPT ![t] = c]

\* Thread t begins the save or delete c.
WriterBegins(t, c) ==
    calls' = [u \in Threads |-> IF u = t THEN c ELSE Overlapped(calls[u], c.slug)]

BytesOf(f, slug) == IF slug \in DOMAIN f THEN f[slug].bytes ELSE <<>>

\* The call c of thread t returns ret, or raises, leaving the store st: live
\* is the file of the slug and cached whether a cache holds an entry of it.
Returned(t, c, st, m, ret, raised) ==
    /\ StoreBecomes(st)
    /\ resp' = [op |-> c.op, slug |-> c.slug, thread |-> t, ret |-> ret, raised |-> raised,
                call |-> c, exists |-> c.slug \in DOMAIN st.files,
                live |-> BytesOf(st.files, c.slug),
                cached |-> CacheGet(st.pc, c.slug) # <<>> \/ CacheGet(st.hc, c.slug) # <<>>,
                mirror |-> m]

\* load_project: validate_slug and filepath.exists().  clean tells that no
\* save or delete of the slug is in progress, and none began since.
LoadBegin(t, slug) ==
    /\ calls[t] = NoCall
    /\ LET c == [op |-> "load_project", slug |-> slug, pc |-> "exists",
                 clean |-> \A u \in Threads : ~Writing(calls[u], slug)]
       IN IF ~ValidateSlug(slug)
          THEN Returned(t, c, StoreNow, mirror, <<>>, FALSE) /\ UNCHANGED calls
          ELSE IF slug \notin DOMAIN files
          THEN Returned(t, c, InvalidateProjectCache(StoreNow, slug), mirror, <<>>, FALSE)
                  /\ UNCHANGED calls
          ELSE /\ CallBecomes(t, With(c, [pc |-> "stat"]))
               /\ UNCHANGED <<files, parseCache, htmlCache, resp>>
    /\ UNCHANGED <<clock, held, mirror>> /\ LadderIdle /\ VideoIdle /\ AssetsIdle

\* _project_stat(filepath) and now = monotonic(): FileNotFoundError leaves
\* load_project when the file is gone.
LoadStat(t) ==
    /\ calls[t].op = "load_project" /\ calls[t].pc = "stat"
    /\ IF calls[t].slug \in DOMAIN files
       THEN /\ CallBecomes(t, With(calls[t], [pc |-> "lookup", stat |-> files[calls[t].slug],
                                              now |-> clock]))
            /\ UNCHANGED <<files, parseCache, htmlCache, resp>>
       ELSE Returned(t, calls[t], StoreNow, mirror, <<>>, TRUE) /\ CallBecomes(t, NoCall)
    /\ UNCHANGED <<clock, held, mirror>> /\ LadderIdle /\ VideoIdle /\ AssetsIdle

\* The first locked section of _get_cached_project_parse.
LoadLookup(t) ==
    /\ calls[t].op = "load_project" /\ calls[t].pc = "lookup"
    /\ LET c == calls[t] IN
       IF ParseCacheHit(CacheGet(parseCache, c.slug), c.stat, c.now)
       THEN /\ parseCache' = MoveToEnd(parseCache, c.slug)
            /\ CallBecomes(t, With(c, [pc |-> "html", parsed |-> CacheGet(parseCache, c.slug)[1]]))
       ELSE /\ parseCache' = CachePop(parseCache, c.slug)
            /\ CallBecomes(t, With(c, [pc |-> "read"]))
    /\ UNCHANGED <<files, htmlCache, resp, clock, held, mirror>> /\ LadderIdle /\ VideoIdle /\ AssetsIdle

\* open(filepath).read() and parse_frontmatter: FileNotFoundError leaves
\* load_project when the file is gone.
LoadRead(t) ==
    /\ calls[t].op = "load_project" /\ calls[t].pc = "read"
    /\ LET c == calls[t] IN
       IF c.slug \in DOMAIN files
       THEN /\ CallBecomes(t, With(c, [pc |-> "store",
                                       parsed |-> ReadParsed(c.slug, c.stat,
                                                             ReadText(files[c.slug].bytes),
                                                             c.now)]))
            /\ UNCHANGED <<files, parseCache, htmlCache, resp>>
       ELSE Returned(t, c, StoreNow, mirror, <<>>, TRUE) /\ CallBecomes(t, NoCall)
    /\ UNCHANGED <<clock, held, mirror>> /\ LadderIdle /\ VideoIdle /\ AssetsIdle

\* The second locked section of _get_cached_project_parse.
LoadStore(t) ==
    /\ calls[t].op = "load_project" /\ calls[t].pc = "store"
    /\ StoreBecomes(StoreParsed(StoreNow, calls[t].slug, calls[t].parsed, calls[t].now).st)
    /\ CallBecomes(t, With(calls[t], [pc |-> "html"]))
    /\ UNCHANGED <<resp, clock, held, mirror>> /\ LadderIdle /\ VideoIdle /\ AssetsIdle

\* load_project returns what r, the call from the parsed entry on, gives.
LoadReturned(t, c, r) == Returned(t, c, r.st, mirror, r.ret, r.raised)

\* The HTML part of load_project and the project dict.  Between its two
\* locked sections the call holds only the html it found or rendered.
LoadRender(t) ==
    /\ calls[t].op = "load_project" /\ calls[t].pc = "html"
    /\ LoadReturned(t, calls[t],
                    LoadParsed([st |-> StoreNow, parsed |-> calls[t].parsed],
                               calls[t].slug, clock))
    /\ CallBecomes(t, NoCall)
    /\ UNCHANGED <<clock, held, mirror>> /\ LadderIdle /\ VideoIdle /\ AssetsIdle

\* content_sync.sync_to_s3: the file as it is now is uploaded; ok tells
\* whether S3 took it.  A file that is gone fails like S3 does.
SyncToS3(m, f, slug, ok) ==
    IF ok /\ slug \in DOMAIN f
    THEN [m EXCEPT !.content = (slug :> f[slug].bytes) @@ @] ELSE m

\* content_sync.archive_to_s3
ArchiveToS3(m, f, slug, ok) ==
    IF ok /\ slug \in DOMAIN f
    THEN [m EXCEPT !.archive = @ \cup {<<slug, f[slug].bytes>>}] ELSE m

\* content_sync.delete_from_s3
DeleteFromS3(m, slug, ok) ==
    IF ok THEN [m EXCEPT !.content = [s \in (DOMAIN @) \ {slug} |-> @[s]]] ELSE m

\* A helper that lets the failure pass.
MirrorRaisesUncaught(ok) == ~ok

\* _sync_to_s3, _archive_to_s3, _delete_from_s3: whether the failure of the
\* S3 call leaves the helper as an exception.  Both layers catch Exception.
MirrorRaises(ok) == FALSE

\* save_project up to the write: validate_slug, serialize_frontmatter and
\* open(filepath, "w").write(content).
SaveWrite(t, slug, fm, md) ==
    /\ calls[t] = NoCall
    /\ IF ~ValidateSlug(slug)
       THEN /\ Returned(t, [op |-> "save_project", slug |-> slug], StoreNow, mirror,
                        ValueError, TRUE)
            /\ UNCHANGED calls
       ELSE /\ files' = WriteFile(StoreNow, slug, SerializeFrontmatter(fm, md), clock).files
            /\ WriterBegins(t, [op |-> "save_project", slug |-> slug, pc |-> "invalidate",
                                frontmatter |-> fm, markdown_content |-> md])
            /\ UNCHANGED <<parseCache, htmlCache, resp>>
    /\ UNCHANGED <<clock, held, mirror>> /\ LadderIdle /\ VideoIdle /\ AssetsIdle

\* _invalidate_project_cache(slug)
SaveInvalidate(t) ==
    /\ calls[t].op = "save_project" /\ calls[t].pc = "invalidate"
    /\ StoreBecomes(InvalidateProjectCache(StoreNow, calls[t].slug))
    /\ CallBecomes(t, With(calls[t], [pc |-> "sync"]))
    /\ UNCHANGED <<resp, clock, held, mirror>> /\ LadderIdle /\ VideoIdle /\ AssetsIdle

\* _sync_to_s3(filepath); return True
SaveSync(t) ==
    /\ calls[t].op = "save_project" /\ calls[t].pc = "sync"
    /\ \E ok \in BOOLEAN :
        /\ mirror' = SyncToS3(mirror, files, calls[t].slug, ok)
        /\ Returned(t, With(calls[t], [synced |-> ok]), StoreNow, mirror',
                    IF MirrorRaises(ok) THEN None ELSE PyTrue, MirrorRaises(ok))
    /\ CallBecomes(t, NoCall)
    /\ UNCHANGED <<clock, held>> /\ LadderIdle /\ VideoIdle /\ AssetsIdle

\* A delete that removes the file before it archives it.
UnlinkFirst(slug) == "unlink"

\* What delete_project does once the file exists: the archive attempt.
FirstOfDelete(slug) == "archive"

\* delete_project: validate_slug and filepath.exists().  log is the list of
\* what the call did so far.
DeleteBegin(t, slug) ==
    /\ calls[t] = NoCall
    /\ IF ~ValidateSlug(slug)
       THEN /\ Returned(t, [op |-> "delete_project", slug |-> slug, log |-> <<>>],
                        StoreNow, mirror, ValueError, TRUE)
            /\ UNCHANGED calls
       ELSE IF slug \notin DOMAIN files
       THEN /\ Returned(t, [op |-> "delete_project", slug |-> slug, log |-> <<>>],
                        StoreNow, mirror, PyFalse, FALSE)
            /\ UNCHANGED calls
       ELSE /\ WriterBegins(t, [op |-> "delete_project", slug |-> slug,
                                pc |-> FirstOfDelete(slug), log |-> <<>>])
            /\ UNCHANGED <<files, parseCache, htmlCache, resp>>
    /\ UNCHANGED <<clock, held, mirror>> /\ LadderIdle /\ VideoIdle /\ AssetsIdle

\* The position of a delete that did log: the archive attempt, then the
\* unlink, then the invalidation.
AfterDelete(log) ==
    IF "archive" \notin {log[i][1] : i \in DOMAIN log} THEN "archive"
    ELSE IF "unlink" \notin {log[i][1] : i \in DOMAIN log} THEN "unlink"
    ELSE "invalidate"

\* _archive_to_s3(filepath)
DeleteArchive(t) ==
    /\ calls[t].op = "delete_project" /\ calls[t].pc = "archive"
    /\ \E ok \in BOOLEAN :
        /\ mirror' = ArchiveToS3(mirror, files, calls[t].slug, ok)
        /\ IF MirrorRaises(ok)
           THEN /\ Returned(t, calls[t], StoreNow, mirror', None, TRUE)
                /\ CallBecomes(t, NoCall)
           ELSE /\ CallBecomes(t, With(calls[t],
                       [pc |-> AfterDelete(Append(calls[t].log, <<"archive", ok>>)),
                        log |-> Append(calls[t].log, <<"archive", ok>>)]))
                /\ UNCHANGED <<files, parseCache, htmlCache, resp>>
    /\ UNCHANGED <<clock, held>> /\ LadderIdle /\ VideoIdle /\ AssetsIdle

\* filepath.unlink(): FileNotFoundError leaves delete_project when the file
\* is gone.
DeleteUnlink(t) ==
    /\ calls[t].op = "delete_project" /\ calls[t].pc = "unlink"
    /\ IF calls[t].slug \in DOMAIN files
       THEN /\ files' = Unlink(StoreNow, calls[t].slug).files
            /\ CallBecomes(t, With(calls[t],
                   [pc |-> AfterDelete(Append(calls[t].log, <<"unlink", TRUE>>)),
                    log |-> Append(calls[t].log, <<"unlink", TRUE>>)]))
            /\ UNCHANGED <<parseCache, htmlCache, resp>>
       ELSE Returned(t, calls[t], StoreNow, mirror, None, TRUE) /\ CallBecomes(t, NoCall)
    /\ UNCHANGED <<clock, held, mirror>> /\ LadderIdle /\ VideoIdle /\ AssetsIdle

\* _invalidate_project_cache(slug)
DeleteInvalidate(t) ==
    /\ calls[t].op = "delete_project" /\ calls[t].pc = "invalidate"
    /\ StoreBecomes(InvalidateProjectCache(StoreNow, calls[t].slug))
    /\ CallBecomes(t, With(calls[t], [pc |-> "mirror",
                                      log |-> Append(calls[t].log, <<"invalidate", TRUE>>)]))
    /\ UNCHANGED <<resp, clock, held, mirror>> /\ LadderIdle /\ VideoIdle /\ AssetsIdle

\* _delete_from_s3(filepath); return True
DeleteMirror(t) ==
    /\ calls[t].op = "delete_project" /\ calls[t].pc = "mirror"
    /\ \E ok \in BOOLEAN :
        /\ mirror' = DeleteFromS3(mirror, calls[t].slug, ok)
        /\ Returned(t, With(calls[t], [log |-> Append(calls[t].log, <<"s3delete", ok>>)]),
                    StoreNow, mirror',
                    IF MirrorRaises(ok) THEN None ELSE PyTrue, MirrorRaises(ok))
    /\ CallBecomes(t, NoCall)
    /\ UNCHANGED <<clock, held>> /\ LadderIdle /\ VideoIdle /\ AssetsIdle

-----------------------------------------------------------------------------
(* load_project in one thread while another deletes and saves the file.    *)

RaceSlug == <<"a">>

RaceInit ==
    /\ files = (RaceSlug :> StoredFile(ThreadFm))
    /\ parseCache = <<>> /\ htmlCache = <<>>
    /\ clock = 0 /\ held = None /\ resp = NoResp
    /\ source = NoSource /\ resolutions = <<>>
    /\ s3hls = {} /\ NoUploads /\ NoCalls

RaceNext ==
    \/ LoadBegin(1, RaceSlug) \/ LoadStat(1) \/ LoadLookup(1)
    \/ LoadRead(1) \/ LoadStore(1) \/ LoadRender(1)
    \/ DeleteBegin(2, RaceSlug) \/ DeleteArchive(2) \/ DeleteUnlink(2)
    \/ DeleteInvalidate(2) \/ DeleteMirror(2)
    \/ SaveWrite(2, RaceSlug, ThreadFm, <<"x">>) \/ SaveInvalidate(2) \/ SaveSync(2)

SpecRace == RaceInit /\ [][RaceNext]_vars

\* C14: load_project never raises while delete_project or a rename removes
\* the file, also between its existence check and its stat or read; it
\* returns None when the file is absent.
C14_LoadNeverRaisesOnRemoval ==
    resp.op = "load_project" =>
        /\ ~resp.raised
        /\ resp.call.pc = "exists" => (~resp.exists /\ resp.ret = <<>>)

-----------------------------------------------------------------------------
(* save_project and delete_project with an S3 mirror that may fail.        *)

MirrorInit ==
    /\ files = NoFiles
    /\ parseCache = <<>> /\ htmlCache = <<>>
    /\ clock = 0 /\ held = None /\ resp = NoResp
    /\ source = NoSource /\ resolutions = <<>>
    /\ s3hls = {} /\ NoUploads /\ NoCalls

MirrorNext ==
    \/ LoadBegin(1, RaceSlug) \/ LoadStat(1) \/ LoadLookup(1)
    \/ LoadRead(1) \/ LoadStore(1) \/ LoadRender(1)
    \/ \E md \in ThreadBodies : SaveWrite(1, RaceSlug, ThreadFm, md)
    \/ SaveInvalidate(1) \/ SaveSync(1)
    \/ DeleteBegin(1, RaceSlug) \/ DeleteArchive(1) \/ DeleteUnlink(1)
    \/ DeleteInvalidate(1) \/ DeleteMirror(1)

SpecMirror == MirrorInit /\ [][MirrorNext]_vars

\* C15: save_project returns True, with the content written and the cache
\* entries of the slug dropped, also when the upload to the S3 mirror
\* fails: nothing is raised and the local write is not undone.
C15_SaveSurvivesMirrorFailure ==
    resp.op = "save_project" =>
        /\ resp.ret = PyTrue /\ ~resp.raised
        /\ resp.exists
        /\ resp.live = WriteText(SerializeFrontmatter(resp.call.frontmatter,
                                                      resp.call.markdown_content))
        /\ ~resp.cached

\* A save returned True although the upload failed: the mirror still holds
\* the version before.
C15_WitnessMirrorBehind ==
    /\ resp.op = "save_project" /\ ~resp.call.synced /\ resp.ret = PyTrue
    /\ RaceSlug \in DOMAIN resp.mirror.content
    /\ resp.mirror.content[RaceSlug] # resp.live

LogSteps(log) == [i \in DOMAIN log |-> log[i][1]]

\* C16: delete_project of an existing project makes the archive attempt,
\* then unlinks the file, then drops the cache entries, then deletes the
\* mirror copy, and returns True; a failed archive or mirror delete neither
\* keeps the file nor raises.  Of an absent project it returns False and
\* does none of the four.
C16_DeleteOrder ==
    resp.op = "delete_project" =>
        /\ ~resp.raised
        /\ ~resp.exists /\ ~resp.cached
        /\ IF resp.ret = PyTrue
           THEN LogSteps(resp.call.log) = <<"archive", "unlink", "invalidate", "s3delete">>
           ELSE resp.ret = PyFalse /\ resp.call.log = <<>>

\* A delete returned True although the archive attempt and the mirror
\* delete both failed: the file is gone, the mirror copy is still there.
C16_WitnessBothFailed ==
    /\ resp.op = "delete_project" /\ resp.ret = PyTrue /\ ~resp.exists
    /\ resp.call.log = <<<<"archive", FALSE>>, <<"unlink", TRUE>>, <<"invalidate", TRUE>>,
                         <<"s3delete", FALSE>>>>
    /\ RaceSlug \in DOMAIN resp.mirror.content

-----------------------------------------------------------------------------
(* The caches under loads of more projects than they hold.                 *)

LruInit ==
    /\ files = [s \in ThreadSlugs |-> StoredFile(ThreadFm)]
    /\ parseCache = <<>> /\ htmlCache = <<>>
    /\ clock = 0 /\ held = None /\ resp = NoResp
    /\ source = NoSource /\ resolutions = <<>>
    /\ s3hls = {} /\ NoUploads /\ NoCalls

LruNext ==
    \/ \E slug \in ThreadSlugs : LoadBegin(1, slug)
    \/ LoadStat(1) \/ LoadLookup(1) \/ LoadRead(1) \/ LoadStore(1) \/ LoadRender(1)
    \/ SaveWrite(1, RaceSlug, ThreadFm, <<"y">>) \/ SaveInvalidate(1) \/ SaveSync(1)
    \/ DeleteBegin(1, RaceSlug) \/ DeleteArchive(1) \/ DeleteUnlink(1)
    \/ DeleteInvalidate(1) \/ DeleteMirror(1)
    \/ Tick

SpecLru == LruInit /\ [][LruNext]_vars

SlugsOf(cache) == [i \in DOMAIN cache |-> cache[i].slug]
Holds(cache, e) == \E i \in DOMAIN cache : cache[i] = e

\* The slug of the call that takes the step.
ActingSlug ==
    IF calls[1].op # "idle" THEN calls[1].slug
    ELSE IF calls'[1].op # "idle" THEN calls'[1].slug ELSE resp'.slug

\* From old to new a cache that is over its bound lost the entries used
\* longest ago: of two entries of other slugs than s, fresh ones, the one
\* used later stays when the one used earlier does.
EvictsOldestFirst(old, new, s) ==
    \A i, j \in DOMAIN old :
        (/\ i < j /\ old[i].slug # s /\ old[j].slug # s
         /\ Holds(new, old[i]) /\ IsFresh(old[j].cached_at, clock)) => Holds(new, old[j])

EndsWith(cache, s) == cache # <<>> /\ cache[Len(cache)].slug = s

-----------------------------------------------------------------------------
(* load_project in two threads while one of them also saves.               *)

StaleInit ==
    /\ files = (RaceSlug :> StoredFile(ThreadFm))
    /\ parseCache = <<>> /\ htmlCache = <<>>
    /\ clock = 0 /\ held = None /\ resp = NoResp
    /\ source = NoSource /\ resolutions = <<>>
    /\ s3hls = {} /\ NoUploads /\ NoCalls

StaleNext ==
    \/ \E t \in Threads :
        \/ LoadBegin(t, RaceSlug) \/ LoadStat(t) \/ LoadLookup(t)
        \/ LoadRead(t) \/ LoadStore(t) \/ LoadRender(t)
    \/ \E md \in ThreadBodies : SaveWrite(2, RaceSlug, ThreadFm, md)
    \/ SaveInvalidate(2) \/ SaveSync(2)
    \/ Tick

SpecStale == StaleInit /\ [][StaleNext]_vars

\* The record load_project builds from the file as it is.
ShowsFile(p, bytes) ==
    /\ p.markdown_content = ParseFrontmatter(ReadText(bytes)).markdown_content
    /\ p.html_content = MarkdownToHtml(ParseFrontmatter(ReadText(bytes)).markdown_content)
    /\ p.revision = RevisionFromContent(ReadText(bytes))

\* C18: a load_project that begins after save_project returned, no other
\* save or delete of the slug being in progress since, returns the markdown,
\* the HTML and the revision of the saved file, also when a load that began
\* before the save stored its cache entries after the save's invalidation.
C18_LoadAfterSaveIsFresh ==
    (resp.op = "load_project" /\ resp.call.clean /\ resp.ret # <<>>) =>
        ShowsFile(resp.ret[1], resp.live)

-----------------------------------------------------------------------------
(* The background threads of an upload fail; the client polls.             *)

\* The JSON get_more_thumbnails answers for temp_info.
MoreThumbnailsBody(temp_info) ==
    [frames |-> temp_info.frames, complete |-> temp_info.frames_complete]

\* get_more_thumbnails
GetMoreThumbnails ==
    /\ gen = NoGen
    /\ \E temp_id \in Ids :
        resp' = IF temp_id \in DOMAIN tempVideoFiles
                THEN [op |-> "get_more_thumbnails", temp_id |-> temp_id, status |-> 200,
                      body |-> MoreThumbnailsBody(tempVideoFiles[temp_id])]
                ELSE [op |-> "get_more_thumbnails", temp_id |-> temp_id, status |-> 404,
                      body |-> [detail |-> "Invalid or expired temp_id"]]
    /\ UNCHANGED <<files, parseCache, htmlCache, clock, held, s3hls, tempVideoFiles,
                   hlsSessions, tmpfs, encodes, extracts, gen, issued>>
    /\ LadderIdle /\ CallsIdle

FailureNext ==
    \/ VideoThumbnails
    \/ ExtractRemainingFrames
    \/ RunHlsProgress
    \/ RunHlsEncodingComplete
    \/ RunHlsEncodingError
    \/ GetHlsProgress
    \/ GetMoreThumbnails

SpecFailure == VideoInit /\ [][FailureNext]_vars

\* What tells a polling client that the extraction failed: an error field,
\* or a complete flag other than that of a finished extraction.
ShowsFailure(body) == "error" \in DOMAIN body \/ body.complete # TRUE

\* C19: a background HLS encode or frame extraction that raised is seen by
\* the polling client as an error: the HLS session answers status "error"
\* with the error text, and the temp-video entry answers with an error
\* indication that a finished extraction does not give.
C19_ThreadFailureObservable ==
    /\ (/\ resp.op = "get_hls_progress"
        /\ resp.session_id \in DOMAIN encodes
        /\ encodes[resp.session_id].state = "error")
           => (resp.body.status = "error" /\ Truthy(resp.body.error))
    /\ (/\ resp.op = "get_more_thumbnails" /\ resp.status = 200
        /\ extracts[resp.temp_id] = "raised")
           => ShowsFailure(resp.body)

-----------------------------------------------------------------------------
(* The wait of generate-sprite-sheet for the HLS session.  The handler is  *)
(* running code: each time.sleep(1) returns and the next round is taken.   *)

WaitNext ==
    \/ VideoThumbnails
    \/ RunHlsEncodingComplete
    \/ RunHlsEncodingError
    \/ GenerateSpriteSheet
    \/ GenPoll

\* The step the handler takes when time.sleep(1) returns or the loop is
\* first entered: one more sleep is counted or the handler ends.  Only
\* GenPoll makes it, and GenPoll can make it whenever the handler is in its
\* loop.
GenResumes == gen.pc = "poll" /\ gen' \in {NoGen, [gen EXCEPT !.waited = @ + 1]}

\* The event loop resumes a sleeping handler: a handler in its loop does not
\* wait forever for its next round.
SpecWait == VideoInit /\ [][WaitNext]_vars /\ WF_gen(GenResumes)

IsGenAnswer == resp.op = "generate_sprite_sheet_endpoint" /\ resp.status # 400

\* The session the loop watches is complete, in error or gone.
WaitIsOver ==
    \/ gen.sid \notin DOMAIN hlsSessions
    \/ hlsSessions[gen.sid].status \in {"complete", "error"}

\* C20: the wait of generate-sprite-sheet for the HLS session ends: it polls
\* at most max_wait times, sleeps no more once the session is complete, in
\* error or gone, answers a session in error with a 500 that carries the
\* session's error text, and a session still processing at the last poll
\* with the 500 "HLS encoding timed out".
C20_HlsWaitTerminates ==
    /\ (gen.pc = "poll") ~> (gen = NoGen)
    /\ [](gen.pc = "poll" => gen.waited < MaxPolls)
    /\ [][(gen.pc = "poll" /\ WaitIsOver /\ gen' # NoGen) => gen'.waited = gen.waited]_vars
    /\ [](IsGenAnswer =>
            /\ resp.polls <= MaxPolls
            /\ (resp.polled # <<>> /\ resp.polled[1].status = "error") =>
                   /\ resp.status = 500
                   /\ resp.detail = <<"HLS encoding failed: ">> \o resp.polled[1].error
            /\ (resp.polled # <<>> /\ resp.polled[1].status = "processing") =>
                   /\ resp.polls = MaxPolls
                   /\ resp.status = 500
                   /\ resp.detail = <<"HLS encoding timed out">>
            /\ (resp.status = 500 /\ resp.detail = <<"HLS encoding timed out">>) =>
                   resp.polls = MaxPolls)

\* The session was still processing at the last of max_wait polls.
C20_WitnessTimedOut ==
    /\ IsGenAnswer /\ resp.status = 500 /\ resp.polls = MaxPolls
    /\ resp.detail = <<"HLS encoding timed out">>
    /\ resp.hls_session_id \in DOMAIN encodes
    /\ encodes[resp.hls_session_id].state = "running"

-----------------------------------------------------------------------------
(* The frames of an upload: the extraction thread of an uploaded or of the *)
(* saved hero video ends while the client polls, confirms the sprite range *)
(* or leaves the upload to the sweep.                                      *)

\* The hero video saved on the project when the server starts.
SavedUrl == HlsUrl(VideoSlug, "v0")

FramesInit ==
    /\ files = (VideoSlug :>
                   [bytes |-> WriteText(SerializeFrontmatter(
                                  [name |-> <<"n1">>, slug |-> VideoSlug,
                                   date |-> <<"2024-01-01">>, pinned |-> PyFalse,
                                   draft |-> PyFalse, video |-> [hls |-> SavedUrl]],
                                  <<"x">>)),
                    mtime |-> 0])
    /\ parseCache = <<>> /\ htmlCache = <<>>
    /\ clock = 0 /\ held = None /\ resp = NoResp
    /\ source = NoSource /\ resolutions = <<>>
    /\ s3hls = {[slug |-> VideoSlug, version |-> "v0"]} /\ NoUploads /\ NoCalls

FramesNext ==
    \/ VideoThumbnails
    \/ VideoThumbnailsExisting
    \/ ExtractRemainingFrames
    \/ GetMoreThumbnails
    \/ GenerateSpriteSheet
    \/ GenPoll
    \/ CleanupOldTempVideos
    \/ Tick

\* The extraction thread of the n-th upload ends.
ExtractEnds(n) ==
    ExtractRemainingFrames /\ n \in DOMAIN extracts /\ extracts'[n] # extracts[n]

\* A started daemon thread runs until its target returns, and ffmpeg ends
\* with a return code: no extraction runs forever.
SpecFrames == FramesInit /\ [][FramesNext]_vars /\ \A n \in Ids : WF_vars(ExtractEnds(n))

\* C21: the entry of an upload, while it is in the store, comes to have
\* frames_complete true whether its extraction returns or raises, keeps it
\* true, and get_more_thumbnails answers complete as the entry has it.
C21_FramesEventuallyComplete ==
    /\ \A n \in Ids :
          (n \in DOMAIN tempVideoFiles)
              ~> (n \notin DOMAIN tempVideoFiles \/ tempVideoFiles[n].frames_complete)
    /\ [][\A n \in DOMAIN tempVideoFiles :
             (tempVideoFiles[n].frames_complete /\ n \in DOMAIN tempVideoFiles')
                 => tempVideoFiles'[n].frames_complete]_vars
    /\ []((resp.op = "get_more_thumbnails" /\ resp.status = 200) =>
             resp.body.complete = tempVideoFiles[resp.temp_id].frames_complete)

\* The client polling the frames of the saved hero video is told complete
\* after the extraction raised.
C21_WitnessCompleteAfterFailure ==
    /\ resp.op = "get_more_thumbnails" /\ resp.status = 200
    /\ resp.body.complete = TRUE
    /\ extracts[resp.temp_id] = "raised"
    /\ tempVideoFiles[resp.temp_id].is_remote

-----------------------------------------------------------------------------
(* The client confirms the sprite range of an uploaded or of the saved     *)
(* hero video while the encode runs, completes or fails.                   *)

ConfirmNext ==
    \/ VideoThumbnails
    \/ VideoThumbnailsExisting
    \/ RunHlsEncodingComplete
    \/ RunHlsEncodingError
    \/ GenerateSpriteSheet
    \/ GenPoll

SpecConfirm == FramesInit /\ [][ConfirmNext]_vars

-----------------------------------------------------------------------------
(* Image uploads and the asset registry (utils/assets.py): upload-media,   *)
(* content-video-poster and the orphan cleanup.  The registry is the dict  *)
(* "assets" of assets.json in its insertion order, a sequence of           *)
(* [key, hash, size].                                                      *)

MaxPuts == 3

\* datetime.now().strftime("%Y%m%d_%H%M%S_%f") at the n-th upload.
Stamps == <<"t1", "t2", "t3", "t4">>

\* The image files a client uploads: two encodings of one picture, another
\* picture, and a file that is no image.
ImageFiles == {"a.png", "a.jpg", "b.png", "notes.txt"}

\* process_image: the picture re-encoded as WebP, ValueError for a file
\* Image.open rejects.
ProcessImage(file) ==
    CASE file = "a.png" -> <<"webp-a">>
      [] file = "a.jpg" -> <<"webp-a">>
      [] file = "b.png" -> <<"webp-b">>
      [] OTHER -> ValueError

\* The frames generate_thumbnail writes as poster.webp.
PosterFrames == {<<"webp-a">>, <<"webp-c">>}

\* compute_hash
ComputeHash(data) == <<"sha256:">> \o data

RECURSIVE FindFrom(_, _, _)
\* The loop of find_by_hash from the i-th entry on.
FindFrom(registry, content_hash, i) ==
    IF i > Len(registry) THEN None
    ELSE IF registry[i].hash = content_hash THEN registry[i].key
    ELSE FindFrom(registry, content_hash, i + 1)

\* A lookup that finds nothing.
FindNothing(registry, content_hash) == None

\* find_by_hash
FindByHash(registry, content_hash) == FindFrom(registry, content_hash, 1)

\* registry["assets"][s3_key] = {...}: a key already there keeps its place.
RegisterAsset(registry, s3_key, content_hash, size) ==
    IF \E i \in DOMAIN registry : registry[i].key = s3_key
    THEN [i \in DOMAIN registry |->
             IF registry[i].key = s3_key
             THEN [key |-> s3_key, hash |-> content_hash, size |-> size]
             ELSE registry[i]]
    ELSE Append(registry, [key |-> s3_key, hash |-> content_hash, size |-> size])

\* f"https://{CLOUDFRONT_DOMAIN}/{key}"
AssetUrl(key) == <<"https://cdn", "/">> \o key

\* content_image_key / misc_image_key of f"{timestamp}.webp"
ImageKey(scope, n) ==
    <<IF scope = "misc" THEN "images/misc/" ELSE "images/project-content/",
      Stamps[n], ".webp">>

\* The common end of upload_media and extract_content_video_poster for the
\* bytes data: the lookup by hash, then upload_file (which raises unless
\* uploaded) and register_asset (which raises unless registered).  existing
\* is find_by_hash(compute_hash(data)).
StoreImage(op, data, existing, key, uploaded, registered) ==
    /\ assets' =
           IF existing # None THEN assets
           ELSE IF ~uploaded THEN [assets EXCEPT !.puts = @ + 1]
           ELSE IF ~registered
           THEN [assets EXCEPT !.puts = @ + 1, !.bucket = @ \cup {key}]
           ELSE [registry |-> RegisterAsset(assets.registry, key, ComputeHash(data),
                                           Len(data)),
                 bucket |-> assets.bucket \cup {key}, puts |-> assets.puts + 1]
    /\ resp' = [op |-> op, before |-> assets, hash |-> ComputeHash(data)]
                @@ (IF existing # None
                    THEN [status |-> 200, url |-> AssetUrl(existing), deduplicated |-> TRUE]
                    ELSE IF uploaded /\ registered
                    THEN [status |-> 200, url |-> AssetUrl(key), deduplicated |-> FALSE]
                    ELSE [status |-> 500, url |-> None, deduplicated |-> FALSE])

\* An image request was refused before any lookup.
ImageRefused(op, status) ==
    /\ resp' = [op |-> op, status |-> status, before |-> assets, hash |-> None,
                url |-> None, deduplicated |-> FALSE]
    /\ UNCHANGED assets

\* upload_media with media_type "image"
UploadMedia ==
    /\ assets.puts < MaxPuts
    /\ \E file \in ImageFiles, scope \in {"project", "misc"}, uploaded, registered \in BOOLEAN :
        IF ProcessImage(file) = ValueError
        THEN ImageRefused("upload_media", 400)
        ELSE StoreImage("upload_media", ProcessImage(file),
                        FindByHash(assets.registry, ComputeHash(ProcessImage(file))),
                        ImageKey(scope, assets.puts + 1), uploaded, registered)
    /\ UNCHANGED <<files, parseCache, htmlCache, clock, held, calls, mirror>>
    /\ LadderIdle /\ VideoIdle

\* extract_content_video_poster: generate_thumbnail writes the frame or
\* raises.
ExtractContentVideoPoster ==
    /\ assets.puts < MaxPuts
    /\ \E poster_bytes \in PosterFrames, extracted, uploaded, registered \in BOOLEAN :
        IF ~extracted
        THEN ImageRefused("extract_content_video_poster", 500)
        ELSE StoreImage("extract_content_video_poster", poster_bytes,
                        FindByHash(assets.registry, ComputeHash(poster_bytes)),
                        ImageKey("project", assets.puts + 1), uploaded, registered)
    /\ UNCHANGED <<files, parseCache, htmlCache, clock, held, calls, mirror>>
    /\ LadderIdle /\ VideoIdle

\* cleanup_orphans(keys_to_check) when scan_all_references() is all_refs
\* and delete_file fails for the keys in failing: an unreferenced key is
\* deleted from S3 and then unregistered.
CleanupOrphans ==
    /\ \E keys_to_check \in SUBSET (assets.bucket), all_refs \in SUBSET (assets.bucket),
          failing \in SUBSET (assets.bucket) :
        /\ keys_to_check # {}
        /\ failing \subseteq keys_to_check
        /\ assets' =
               [assets EXCEPT
                   !.bucket = @ \ ((keys_to_check \ all_refs) \ failing),
                   !.registry = SelectSeq(@, LAMBDA e :
                                    e.key \notin ((keys_to_check \ all_refs) \ failing))]
        /\ resp' = [op |-> "cleanup_orphans", before |-> assets,
                    deleted |-> (keys_to_check \ all_refs) \ failing]
    /\ UNCHANGED <<files, parseCache, htmlCache, clock, held, calls, mirror>>
    /\ LadderIdle /\ VideoIdle

AssetsNext ==
    \/ UploadMedia
    \/ ExtractContentVideoPoster
    \/ CleanupOrphans

SpecAssets == VideoInit /\ [][AssetsNext]_vars

IsImageAnswer == resp.op \in {"upload_media", "extract_content_video_poster"}

\* The registry reg records content_hash.
Recorded(reg, content_hash) == \E i \in DOMAIN reg : reg[i].hash = content_hash

\* C23: an image upload whose bytes' hash the registry records uploads
\* nothing, registers nothing and answers the URL of the key recorded with
\* that hash; no two entries of the registry carry the same hash.
C23_UploadsDeduplicated ==
    /\ \A i, j \in DOMAIN assets.registry :
          assets.registry[i].hash = assets.registry[j].hash => i = j
    /\ (IsImageAnswer /\ resp.hash # None /\ Recorded(resp.before.registry, resp.hash)) =>
          /\ assets = resp.before
          /\ resp.status = 200 /\ resp.deduplicated
          /\ \E i \in DOMAIN assets.registry :
                /\ assets.registry[i].hash = resp.hash
                /\ resp.url = AssetUrl(assets.registry[i].key)

\* The poster of a video is a picture uploaded earlier and still the only
\* one registered after two uploads: the earlier key is answered.
C23_WitnessPosterDeduplicated ==
    /\ resp.op = "extract_content_video_poster" /\ resp.deduplicated
    /\ Len(assets.registry) = 1
    /\ assets.puts = 2

-----------------------------------------------------------------------------
(* A rename, step by step: save_project_endpoint writes the file of the    *)
(* new slug, then deletes the file of the old one, then cleans up and      *)
(* answers.  The process may die after any step; the files stay.           *)

RenameRequests == {d \in SaveRequests : d.original_slug # d.slug}

\* A rename that removes the old file first.
RenameUnlinkedFirst(st, d, slug, original, now) == DeleteProject(st, original).st

\* The store when save_project(slug, frontmatter, markdown_content) has
\* returned to a save_project_endpoint that passed its checks: the two
\* loads of the checks, then the write.
RenameWritten(st, d, slug, original, now) ==
    SaveProject(LoadProject(LoadProject(st, slug, now).st, original, now).st,
                slug, BuildProjectFrontmatter(d, slug), d.markdown, now).st

\* The request d is refused as r, or it passed its checks and the new file
\* is written.
RenameBegun(d, v, r) ==
    IF r.status # 200
    THEN SaveAnswered(d, r) /\ UNCHANGED calls
    ELSE /\ StoreBecomes(RenameWritten(StoreNow, d, v.slug, v.original_slug, clock))
         /\ calls' = [calls EXCEPT ![1] =
                         [op |-> "save_project_endpoint", pc |-> "delete_project",
                          req |-> d, slug |-> v.slug, original |-> v.original_slug,
                          old |-> files[v.original_slug].bytes]]
         /\ resp' = [op |-> "save_project"]
         /\ UNCHANGED <<s3hls, held>> /\ UploadsIdle

RenameBegin ==
    /\ calls[1] = NoCall
    /\ \E d \in RenameRequests :
        RenameBegun(d, ValidateSaveProjectInput(d), SaveProjectEndpoint(StoreNow, s3hls, d, clock))
    /\ UNCHANGED <<clock, mirror>> /\ LadderIdle /\ AssetsIdle

\* delete_project(original_slug)
RenameDelete ==
    /\ calls[1].op = "save_project_endpoint" /\ calls[1].pc = "delete_project"
    /\ StoreBecomes(RemoveRenamed(StoreNow, calls[1].slug, calls[1].original))
    /\ calls' = [calls EXCEPT ![1].pc = "reply"]
    /\ resp' = [op |-> "delete_project"]
    /\ UNCHANGED <<clock, held, mirror>> /\ LadderIdle /\ VideoIdle /\ AssetsIdle

\* The cleanups and the answer.
RenameReply ==
    /\ calls[1].op = "save_project_endpoint" /\ calls[1].pc = "reply"
    /\ SaveAnswered(calls[1].req,
                    SavedReply(StoreNow, s3hls, calls[1].req, calls[1].slug,
                               calls[1].original))
    /\ calls' = [calls EXCEPT ![1] = NoCall]
    /\ UNCHANGED <<clock, mirror>> /\ LadderIdle /\ AssetsIdle

\* The process dies inside the request and is started again: what was in
\* memory is lost, the files are not.
Crash ==
    /\ calls[1] # NoCall
    /\ calls' = [calls EXCEPT ![1] = NoCall]
    /\ parseCache' = <<>> /\ htmlCache' = <<>>
    /\ resp' = [op |-> "crash", call |-> calls[1]]
    /\ UNCHANGED <<files, clock, held, mirror>> /\ LadderIdle /\ VideoIdle /\ AssetsIdle

\* The other requests are served between two requests.
RenameOthers ==
    /\ calls[1] = NoCall
    /\ ReqCreateProject \/ ReqDeleteProject

RenameNext ==
    \/ RenameBegin
    \/ RenameDelete
    \/ RenameReply
    \/ Crash
    \/ RenameOthers

SpecRename == VideoInit /\ [][RenameNext]_vars

\* The file save_project writes for the rename c.
RenamedFile(c) ==
    WriteText(SerializeFrontmatter(BuildProjectFrontmatter(c.req, c.slug), c.req.markdown))

\* The old file of the rename c is as it was; its new file is written.
HoldsOld(c) == LiveBytes(c.original) = c.old
HoldsNew(c) == LiveBytes(c.slug) = RenamedFile(c)

\* C24: while a rename is in progress the new file is written or the old
\* one is still as it was; a process that dies between the write and the
\* delete leaves both; an answered rename leaves the new file, with the
\* submitted data, and no old file.
C24_RenameWritesBeforeDelete ==
    /\ calls[1].op = "save_project_endpoint" =>
          /\ HoldsNew(calls[1])
          /\ calls[1].pc = "delete_project" => HoldsOld(calls[1])
    /\ resp.op = "crash" =>
          /\ HoldsNew(resp.call)
          /\ resp.call.pc = "delete_project" => HoldsOld(resp.call)
    /\ (IsSave /\ IsRename /\ resp.status = 200) =>
          /\ LiveBytes(Strip(resp.req.slug)) = WriteText(Submitted)
          /\ Strip(resp.req.original_slug) \notin DOMAIN files

\* The process died between the write and the delete: both files are there.
C24_WitnessCrashLeavesBoth ==
    /\ resp.op = "crash" /\ resp.call.pc = "delete_project"
    /\ resp.call.slug \in DOMAIN files /\ resp.call.original \in DOMAIN files
    /\ files[resp.call.slug].bytes # files[resp.call.original].bytes

-----------------------------------------------------------------------------
(* Two editors save one project.  A request is read (await request.json()) *)
(* and later handled; from there save_project_endpoint runs to its answer  *)
(* without yielding, so the requests in flight are handled one at a time,  *)
(* in any order.                                                           *)

\* The unforced saves of the project an editor sends who holds the
\* revision now stored.
EditorSaves ==
    {ProjectData(VideoSlug, name, PyFalse, md)
         @@ [original_slug |-> VideoSlug, base_revision |-> LiveRevision(VideoSlug),
             force |-> PyFalse] : name \in {<<"n1">>, <<"n2">>}, md \in Bodies}

\* The request of editor t is read.
SaveArrive ==
    /\ \E t \in Threads, d \in EditorSaves :
        /\ calls[t] = NoCall
        /\ calls' = [calls EXCEPT ![t] =
                        [op |-> "save_project_endpoint", pc |-> "json", req |-> d]]
    /\ resp' = [op |-> "request"]
    /\ UNCHANGED <<files, parseCache, htmlCache, clock, held, mirror>>
    /\ LadderIdle /\ VideoIdle /\ AssetsIdle

\* The call c is an answered save.
SaveDone(c) == c.op = "save_project_endpoint" /\ c.pc = "done"

\* save_project_endpoint answered r to the request of editor t.  The call
\* keeps the answer, the revision stored when the request was handled, how
\* many of the other editors' requests were handled before, and whether the
\* stored bytes changed.
SaveHandled(t, r) ==
    /\ SaveAnswered(calls[t].req, r)
    /\ calls' = [calls EXCEPT ![t] =
                    [op |-> "save_project_endpoint", pc |-> "done", req |-> calls[t].req,
                     status |-> r.status, live |-> LiveRevision(VideoSlug),
                     order |-> Cardinality({u \in Threads \ {t} : SaveDone(calls[u])}),
                     changed |-> ContentRevision(r.st.files, VideoSlug)
                                     # LiveRevision(VideoSlug)]]

SaveHandle ==
    /\ \E t \in Threads :
        /\ calls[t].op = "save_project_endpoint" /\ calls[t].pc = "json"
        /\ SaveHandled(t, SaveProjectEndpoint(StoreNow, s3hls, calls[t].req, clock))
    /\ UNCHANGED <<clock, mirror>> /\ LadderIdle /\ AssetsIdle

\* Both editors have their answers and go on editing.
SaveAgain ==
    /\ \A t \in Threads : SaveDone(calls[t])
    /\ calls' = [t \in Threads |-> NoCall]
    /\ resp' = [op |-> "request"]
    /\ UNCHANGED <<files, parseCache, htmlCache, clock, held, mirror>>
    /\ LadderIdle /\ VideoIdle /\ AssetsIdle

TwoSavesNext == SaveArrive \/ SaveHandle \/ SaveAgain

SpecTwoSaves == VideoInit /\ [][TwoSavesNext]_vars

\* Editors t and u have their answers, t's request handled first and u's
\* next; both presented the revision that was stored when t's request was
\* handled, with different content.
SameBase(t, u) ==
    /\ t # u
    /\ SaveDone(calls[t]) /\ SaveDone(calls[u])
    /\ calls[t].order = 0 /\ calls[u].order = 1
    /\ calls[t].req.base_revision = calls[t].live
    /\ calls[u].req.base_revision = calls[t].live
    /\ calls[t].req.markdown # calls[u].req.markdown

\* No answered unforced save that presented a revision wrote over a file of
\* another revision.
NoOverwriteOfOtherRevision ==
    \A t \in Threads :
        (SaveDone(calls[t])
            /\ calls[t].status = 200 /\ Truthy(calls[t].req.base_revision)) =>
            calls[t].live = calls[t].req.base_revision

\* C25 as stated: of two unforced saves of one project that present the
\* same current revision with different content, at most one succeeds and
\* the other is answered 409.
C25_NoLostUpdateAsStated ==
    /\ \A t, u \in Threads :
          SameBase(t, u) => (calls[t].status = 200 /\ calls[u].status = 409)
    /\ NoOverwriteOfOtherRevision

\* C25: of two such saves the one handled first succeeds; the other is
\* answered 409 when the first changed the stored bytes, and succeeds too,
\* writing over the revision it presented, when the first submitted what
\* was already stored.
C25_NoLostUpdate ==
    /\ \A t, u \in Threads :
          SameBase(t, u) =>
              /\ calls[t].status = 200
              /\ calls[u].status = IF calls[t].changed THEN 409 ELSE 200
    /\ NoOverwriteOfOtherRevision

\* The second of two saves on one revision was answered 409.
C25_WitnessSecondRejected ==
    \E t, u \in Threads :
        SameBase(t, u) /\ calls[t].changed /\ calls[u].status = 409

\* C26: the temp file of an upload is on disk as long as the HLS session
\* started from that upload is in the store with status "processing" and
\* its encode is running.
C26_TempFileOutlivesEncode ==
    \A n \in DOMAIN hlsSessions :
        (hlsSessions[n].status = "processing" /\ ThreadRunning(n)) =>
            hlsSessions[n].temp_id \in tmpfs

-----------------------------------------------------------------------------
(* Old-version cleanup and the sessions still in the store.                *)

\* The HLS objects the encode of session n uploaded.
SessionObject(n) == [slug |-> encodes[n].slug, version |-> Versions[n]]

\* C27: no step deletes from remote storage the HLS objects of a session
\* that is in the session store before and after the step: neither the
\* cleanup of save-project nor the one the sweep runs for an expired
\* complete session removes the version of another session of the slug.
C27_LiveSessionVersionsKept ==
    [][\A n \in DOMAIN hlsSessions \cap DOMAIN hlsSessions' :
          SessionObject(n) \in s3hls => SessionObject(n) \in s3hls']_vars

-----------------------------------------------------------------------------
(* The two stores and the threads that outlive their entries: uploads are  *)
(* confirmed or abandoned while extractions and encodes are running.       *)

StoresNext ==
    \/ VideoThumbnails
    \/ ExtractRemainingFrames
    \/ RunHlsEncodingComplete
    \/ GenerateSpriteSheet
    \/ GenPoll
    \/ CleanupOldTempVideos
    \/ Tick

SpecStores == VideoInit /\ [][StoresNext]_vars

\* The thread of upload n has ended in this step.
ThreadEnds(n) ==
    \/ n \in DOMAIN extracts /\ extracts'[n] # extracts[n]
    \/ n \in DOMAIN encodes /\ encodes'[n] # encodes[n]

\* C28: the ids of either store grow only by a create of video-thumbnails,
\* with an id never issued before; and a thread that ends when its entry is
\* gone from a store gets False from update and leaves that store as it is.
C28_NoResurrection ==
    [][/\ \A n \in ((DOMAIN tempVideoFiles') \ DOMAIN tempVideoFiles)
                   \cup ((DOMAIN hlsSessions') \ DOMAIN hlsSessions) :
            n > issued /\ resp'.op \in {"video_thumbnails", "video_thumbnails_existing"}
       /\ \A n \in Ids :
            ThreadEnds(n) =>
                /\ ~Updated(tempVideoFiles, n) => tempVideoFiles' = tempVideoFiles
                /\ ~Updated(hlsSessions, n) => hlsSessions' = hlsSessions
                /\ DOMAIN tempVideoFiles' = DOMAIN tempVideoFiles
                /\ DOMAIN hlsSessions' = DOMAIN hlsSessions]_vars

\* Every upload was removed from both stores, by generate-sprite-sheet or by
\* the sweep, and a thread has ended after that: the last step is the end of
\* an extraction or of an encode, and neither store holds an entry.
C28_WitnessThreadEndsAfterRemoval ==
    /\ resp.op = "thread"
    /\ issued = MaxUploads
    /\ tempVideoFiles = <<>> /\ hlsSessions = <<>>
    /\ \A n \in DOMAIN encodes : encodes[n].state # "running"
    /\ \A n \in DOMAIN extracts : extracts[n] # "running"

-----------------------------------------------------------------------------
(* Creating and renaming onto a slug that is taken.                        *)

\* The step is a create-project request for a slug under which a project
\* file exists.
CreatesOntoExisting ==
    /\ resp'.op = "create_project"
    /\ resp'.req.slug \in DOMAIN files

\* The step is a save-project request that renames (slug and original_slug
\* differ once stripped) onto a slug under which a project file exists.
RenamesOntoExisting ==
    /\ resp'.op = "save_project_endpoint"
    /\ Strip(resp'.req.slug) # Strip(resp'.req.original_slug)
    /\ Strip(resp'.req.slug) \in DOMAIN files

\* C29: a create-project or a renaming save-project whose slug names an
\* existing project file is answered 400, and the project files are after
\* the request what they were before it: none created, modified or deleted.
C29_NeverOverwritesExisting ==
    [][(CreatesOntoExisting \/ RenamesOntoExisting) =>
           (resp'.status = 400 /\ files' = files)]_vars

\* Two projects are stored and a rename of one onto the slug of the other
\* was refused with 400, both files left as they were.
C29_WitnessRenameRefused ==
    /\ resp.op = "save_project_endpoint"
    /\ resp.req.slug # resp.req.original_slug
    /\ resp.taken /\ resp.status = 400 /\ resp.untouched
    /\ resp.req.original_slug \in DOMAIN files
    /\ resp.req.slug \in DOMAIN files
    /\ files[resp.req.slug].bytes # files[resp.req.original_slug].bytes

-----------------------------------------------------------------------------
(* generate_sprite_sheet: the grid it reports for the frames it composes.  *)

\* duration in half seconds (0.5 s to 3 s, the default), fps and columns
\* (defaults 20 and 5), and the number of frame files ffmpeg left, which is
\* smaller than duration * fps when the video ends before start_time +
\* duration.
HalfSeconds == {1, 2, 3, 6}
FpsValues == {1, 2, 4}
ColumnCounts == {1, 2, 3, 5}
MaxExtracted == 13

\* int(duration * fps), duration being half2 half seconds.
TotalFrames(half2, fps) == (half2 * fps) \div 2

\* (n + columns - 1) // columns
TileRows(n, columns) == (n + columns - 1) \div columns

\* generate_sprite_sheet.  extracted is the number of frame files, and the
\* three flags tell whether the frame extraction, montage and the ffmpeg
\* tile fallback returned 0.  Returns [raised, metadata, tiled]: tiled is
\* the number of rows of the image composed from the frames.
SpriteSheetOf(half2, fps, columns, extracted, extract_ok, montage_ok, tile_ok) ==
    LET total_frames == TotalFrames(half2, fps)
        rows == TileRows(total_frames, columns)
        actual_frames == Min(extracted, total_frames)
    IN IF ~extract_ok THEN [raised |-> "Frame extraction failed"]
       ELSE IF actual_frames = 0 THEN [raised |-> "No frames extracted"]
       ELSE IF ~montage_ok /\ ~tile_ok THEN [raised |-> "Sprite sheet creation failed"]
       ELSE [raised |-> "",
             metadata |-> [frames |-> actual_frames, columns |-> columns,
                           rows |-> rows, fps |-> fps],
             tiled |-> TileRows(actual_frames, columns)]

GridInit ==
    /\ files = NoFiles /\ parseCache = <<>> /\ htmlCache = <<>>
    /\ clock = 0 /\ held = None /\ resp = NoResp
    /\ source = NoSource /\ resolutions = <<>>
    /\ s3hls = {} /\ NoUploads /\ NoCalls

\* The one call of generate_sprite_sheet, on the arguments drawn.
GenerateSpriteSheetCall ==
    /\ resp = NoResp
    /\ \E half2 \in HalfSeconds, fps \in FpsValues, columns \in ColumnCounts,
          extracted \in 0..MaxExtracted, extract_ok \in BOOLEAN,
          montage_ok \in BOOLEAN, tile_ok \in BOOLEAN :
        resp' = [op |-> "generate_sprite_sheet", half2 |-> half2,
                 extracted |-> extracted, total_frames |-> TotalFrames(half2, fps)]
                @@ SpriteSheetOf(half2, fps, columns, extracted,
                                 extract_ok, montage_ok, tile_ok)
    /\ UNCHANGED <<files, parseCache, htmlCache, clock, held>>
    /\ LadderIdle /\ VideoIdle /\ CallsIdle

GridNext == GenerateSpriteSheetCall

SpecGrid == GridInit /\ [][GridNext]_vars

\* C30: the metadata generate_sprite_sheet returns has frames >= 1 and
\* rows = ceil(frames / columns): (rows - 1) * columns < frames <= rows *
\* columns, the rows of the image composed from the frames.
C30_GridMatchesFrames ==
    (resp.op = "generate_sprite_sheet" /\ resp.raised = "") =>
        /\ resp.metadata.frames >= 1
        /\ (resp.metadata.rows - 1) * resp.metadata.columns < resp.metadata.frames
        /\ resp.metadata.frames <= resp.metadata.rows * resp.metadata.columns
        /\ resp.metadata.rows = resp.tiled

=============================================================================
